---------------------------- MODULE Spec2Model ----------------------------
(***************************************************************************)
(* Journal Pattern Reflection Engine: the GET route of app/layout.tsx      *)
(* (per-user result cache) and generateJournalPatterns of                  *)
(* src/utils/auth/username-email.ts (gate, provider call, recovery parser, *)
(* validation and sanitising).                                             *)
(*                                                                         *)
(* Strings are sequences of one-character strings; the two non-ASCII       *)
(* characters the source uses are written "U2019" (right single quote)     *)
(* and "U2026" (ellipsis), and the backtick is written "U0060".  null and  *)
(* undefined are the empty tuple <<>> and a present value x is <<x>>.      *)
(***************************************************************************)
EXTENDS Integers, Sequences, FiniteSets, TLC

VARIABLES
    env,                  \* serverEnv: GEMINI_API_KEY, GEMINI_MODEL
    cachedModelName,      \* module-level cache of resolveModelName
    db,                   \* per user: which of Snapshots journal_entries holds
    patternsCacheByUser,  \* the route's Map<userId, CachedPatterns>
    now,                  \* Date.now(), in ms since the process started
    inflight,             \* the GET invocations suspended at an await
    slotWriter,           \* per user: the response of the request that wrote the slot
    requests,             \* GET requests so far
    edits,                \* journal edits so far
    last,                 \* the response the latest step sent, if it sent one
    call                  \* a direct invocation of generateJournalPatterns

vars ==
    <<env, cachedModelName, db, patternsCacheByUser, slotWriter, now, inflight, requests, edits,
      last, call>>

---------------------------------------------------------------------------
(* Characters and the String methods the source uses.                      *)

AsciiChars ==
    <<" ", "!", "\"", "#", "$", "%", "&", "'", "(", ")", "*", "+", ",", "-", ".", "/", "0",
      "1", "2", "3", "4", "5", "6", "7", "8", "9", ":", ";", "<", "=", ">", "?", "@", "A", "B",
      "C", "D", "E", "F", "G", "H", "I", "J", "K", "L", "M", "N", "O", "P", "Q", "R", "S", "T",
      "U", "V", "W", "X", "Y", "Z", "[", "\\", "]", "^", "_", "U0060", "a", "b", "c", "d", "e",
      "f", "g", "h", "i", "j", "k", "l", "m", "n", "o", "p", "q", "r", "s", "t", "u", "v", "w",
      "x", "y", "z", "{", "|", "}", "~">>

UpperChars ==
    <<"A", "B", "C", "D", "E", "F", "G", "H", "I", "J", "K", "L", "M", "N", "O", "P", "Q", "R",
      "S", "T", "U", "V", "W", "X", "Y", "Z">>

LowerChars ==
    <<"a", "b", "c", "d", "e", "f", "g", "h", "i", "j", "k", "l", "m", "n", "o", "p", "q", "r",
      "s", "t", "u", "v", "w", "x", "y", "z">>

Null == <<>>

Some(x) == <<x>>

IsNull(o) == o = <<>>

Min(a, b) == IF a <= b THEN a ELSE b

IndexIn(c, chars) ==
    IF \E i \in 1..Len(chars) : chars[i] = c
    THEN CHOOSE i \in 1..Len(chars) : chars[i] = c
    ELSE 0

\* The code unit of every character of the model: the ASCII characters at
\* their position from 32, the control characters, and the characters
\* written as tokens.
CharCodes ==
    [i \in 1..Len(AsciiChars) |-> i + 31]

CodeOfChar ==
    [c \in {AsciiChars[i] : i \in 1..Len(AsciiChars)}
            \cup {"\n", "\t", "\r", "U0008", "U000C", "U2019", "U2026", "UFFFD"} |->
        CASE c = "\n" -> 10
          [] c = "\t" -> 9
          [] c = "\r" -> 13
          [] c = "U0008" -> 8
          [] c = "U000C" -> 12
          [] c = "U2019" -> 8217
          [] c = "U2026" -> 8230
          [] c = "UFFFD" -> 65533
          [] OTHER -> CharCodes[IndexIn(c, AsciiChars)]]

\* String.prototype.charCodeAt for one character.
CharCode(c) == CodeOfChar[c]

IsDigit(c) == c \in {"0", "1", "2", "3", "4", "5", "6", "7", "8", "9"}

UpperSet == {UpperChars[i] : i \in 1..Len(UpperChars)}

LowerSet == {LowerChars[i] : i \in 1..Len(LowerChars)}

IsUpper(c) == c \in UpperSet

IsLower(c) == c \in LowerSet

LowerOfUpper == [c \in UpperSet |-> LowerChars[IndexIn(c, UpperChars)]]

\* \s of a regular expression and the characters trim() removes.
IsSpace(c) == c \in {" ", "\t", "\n", "\r"}

LowerChar(c) == IF IsUpper(c) THEN LowerOfUpper[c] ELSE c

toLowerCase(s) == [i \in 1..Len(s) |-> LowerChar(s[i])]

\* s.slice(a, b) for 0 <= a, 0 <= b (0-based, end exclusive).
slice(s, a, b) == SubSeq(s, Min(a, Len(s)) + 1, Min(b, Len(s)))

startsWithAt(s, sub, i) ==
    /\ i + Len(sub) <= Len(s)
    /\ \A k \in 1..Len(sub) : s[i + k] = sub[k]

startsWith(s, sub) == startsWithAt(s, sub, 0)

\* s.indexOf(sub, from): the 0-based position, or -1.
indexOf(s, sub, from) ==
    IF \E i \in from..(Len(s) - Len(sub)) : startsWithAt(s, sub, i)
    THEN CHOOSE i \in from..(Len(s) - Len(sub)) :
            /\ startsWithAt(s, sub, i)
            /\ \A j \in from..(i - 1) : ~startsWithAt(s, sub, j)
    ELSE -1

includes(s, sub) == \E i \in 0..(Len(s) - Len(sub)) : startsWithAt(s, sub, i)

\* for (i = a; i <= b; i++) st = Step(st, i).  The range is halved and the
\* state of the first half is computed (DOMAIN st) before the second half is
\* entered, which keeps the evaluation shallow on long texts.
forRange(Step(_, _), st0, a, b) ==
    LET RECURSIVE go(_, _, _)
        go(st, lo, hi) ==
            IF lo > hi THEN st
            ELSE IF lo = hi THEN Step(st, lo)
            ELSE LET mid == (lo + hi) \div 2 IN
                 IF DOMAIN st = DOMAIN st
                 THEN go(go(st, lo, mid), mid + 1, hi)
                 ELSE st
    IN  go(st0, a, b)

\* The first position q >= p of s whose character is not in the class P, or
\* Len(s) + 1: the end of P* matched from p.
skipWhile(s, p, P(_)) ==
    IF p > Len(s) THEN p
    ELSE CHOOSE q \in p..(Len(s) + 1) :
            /\ (q = Len(s) + 1 \/ ~P(s[q]))
            /\ \A k \in p..(q - 1) : P(s[k])

\* The last position q <= p of s whose character is not in the class P, or 0.
skipWhileBack(s, p, P(_)) ==
    IF p < 1 THEN 0
    ELSE CHOOSE q \in 0..p :
            /\ (q = 0 \/ ~P(s[q]))
            /\ \A k \in (q + 1)..p : P(s[k])

trimStart(s) == SubSeq(s, skipWhile(s, 1, IsSpace), Len(s))

trimEnd(s) == SubSeq(s, 1, skipWhileBack(s, Len(s), IsSpace))

trim(s) == trimEnd(trimStart(s))

\* parts.join(sep)
RECURSIVE join(_, _)
join(parts, sep) ==
    IF parts = <<>> THEN <<>>
    ELSE IF Len(parts) = 1 THEN parts[1]
    ELSE parts[1] \o sep \o join(Tail(parts), sep)

\* Number(s) for a string of decimal digits.
RECURSIVE digitsToNumber(_)
digitsToNumber(s) ==
    IF s = <<>> THEN 0
    ELSE 10 * digitsToNumber(SubSeq(s, 1, Len(s) - 1)) + (CharCode(s[Len(s)]) - 48)

\* String(n) for a natural number.
RECURSIVE numberToString(_)
numberToString(n) ==
    IF n < 10 THEN <<AsciiChars[n + 17]>>
    ELSE numberToString(n \div 10) \o <<AsciiChars[(n % 10) + 17]>>

\* a.localeCompare(b) < 0, = 0, > 0 as -1, 0, 1: on the characters of an ISO date
\* (digits and "-") the collation order is the order of the character codes.
RECURSIVE localeCompare(_, _)
localeCompare(a, b) ==
    IF a = <<>> /\ b = <<>> THEN 0
    ELSE IF a = <<>> THEN -1
    ELSE IF b = <<>> THEN 1
    ELSE IF CharCode(Head(a)) < CharCode(Head(b)) THEN -1
    ELSE IF CharCode(Head(a)) > CharCode(Head(b)) THEN 1
    ELSE localeCompare(Tail(a), Tail(b))

reverse(s) == [i \in 1..Len(s) |-> s[Len(s) + 1 - i]]

---------------------------------------------------------------------------
(* Dates, span and the eligibility gate.                                   *)

\* Date.UTC(y, mo, d) / 86400000: the day number of UTC midnight. Months
\* beyond 0..11 and days beyond the month's length carry, and years 0..99
\* mean 1900..1999, as in Date.UTC.
DateUTCDay(y, mo, d) ==
    LET yy  == IF y \in 0..99 THEN 1900 + y ELSE y
        y1  == yy + (mo \div 12)
        m   == (mo % 12) + 1
        y2  == IF m <= 2 THEN y1 - 1 ELSE y1
        era == y2 \div 400
        yoe == y2 - era * 400
        mp  == (m + 9) % 12
        doy == (153 * mp + 2) \div 5
        doe == yoe * 365 + (yoe \div 4) - (yoe \div 100) + doy
    IN  era * 146097 + doe - 719468 + (d - 1)

\* parseIsoDate: the day number of the date, or null when the text is not
\* dddd-dd-dd. (getTime() is the day number times 86400000.)
parseIsoDate(iso) ==
    IF /\ Len(iso) = 10
       /\ \A i \in {1, 2, 3, 4, 6, 7, 9, 10} : IsDigit(iso[i])
       /\ iso[5] = "-"
       /\ iso[8] = "-"
    THEN Some(DateUTCDay(digitsToNumber(SubSeq(iso, 1, 4)),
                         digitsToNumber(SubSeq(iso, 6, 7)) - 1,
                         digitsToNumber(SubSeq(iso, 9, 10))))
    ELSE Null

\* computeSpanDays: floor((b.getTime() - a.getTime()) / 86400000), which for
\* two UTC midnights is the difference of their day numbers.
computeSpanDays(entries) ==
    IF entries = <<>> THEN Null
    ELSE LET first == entries[1].entryDate
             lastD == entries[Len(entries)].entryDate
         IN  IF first = <<>> \/ lastD = <<>> THEN Null
             ELSE LET a == parseIsoDate(first)
                      b == parseIsoDate(lastD)
                  IN  IF IsNull(a) \/ IsNull(b) THEN Null
                      ELSE Some(b[1] - a[1])

TIME_RANGE_WEEK ==
    <<"o", "v", "e", "r", " ", "t", "h", "e", " ", "p", "a", "s", "t", " ", "w", "e", "e", "k">>

TIME_RANGE_TWO_WEEKS ==
    <<"o", "v", "e", "r", " ", "t", "h", "e", " ", "p", "a", "s", "t", " ", "t", "w", "o", " ",
      "w", "e", "e", "k", "s">>

TIME_RANGE_FEW_WEEKS ==
    <<"o", "v", "e", "r", " ", "t", "h", "e", " ", "p", "a", "s", "t", " ", "f", "e", "w", " ",
      "w", "e", "e", "k", "s">>

\* A variant of describeTimeRange whose thresholds are strict, which C19
\* must tell from it.
describeTimeRangeStrict(spanDays) ==
    IF IsNull(spanDays) THEN TIME_RANGE_WEEK
    ELSE IF spanDays[1] > 20 THEN TIME_RANGE_FEW_WEEKS
    ELSE IF spanDays[1] > 13 THEN TIME_RANGE_TWO_WEEKS
    ELSE TIME_RANGE_WEEK

describeTimeRange(spanDays) ==
    IF IsNull(spanDays) THEN TIME_RANGE_WEEK
    ELSE IF spanDays[1] >= 20 THEN TIME_RANGE_FEW_WEEKS
    ELSE IF spanDays[1] >= 13 THEN TIME_RANGE_TWO_WEEKS
    ELSE TIME_RANGE_WEEK

IsNonVent(e) == ~e.ventEntry

nonVentOf(entries) == SelectSeq(entries, IsNonVent)

\* entries.slice().sort((a, b) => a.entryDate.localeCompare(b.entryDate)): a
\* stable sort, ascending by entryDate.
RECURSIVE insertByEntryDate(_, _)
insertByEntryDate(sorted, e) ==
    IF sorted = <<>> THEN <<e>>
    ELSE IF localeCompare(Head(sorted).entryDate, e.entryDate) <= 0
         THEN <<Head(sorted)>> \o insertByEntryDate(Tail(sorted), e)
         ELSE <<e>> \o sorted

RECURSIVE sortByEntryDate(_)
sortByEntryDate(entries) ==
    IF entries = <<>> THEN <<>>
    ELSE insertByEntryDate(sortByEntryDate(SubSeq(entries, 1, Len(entries) - 1)),
                           entries[Len(entries)])

\* A variant of shouldAttemptLongitudinalAnalysis whose count threshold is 3,
\* which C1 must tell from it.
shouldAttemptWithThreeEntries(entries) ==
    LET nonVent  == nonVentOf(entries)
        spanDays == computeSpanDays(nonVent)
    IN  /\ ~(Len(nonVent) < 3)
        /\ ~IsNull(spanDays)
        /\ ~(spanDays[1] < 6)

shouldAttemptLongitudinalAnalysis(entries) ==
    LET nonVent  == nonVentOf(entries)
        spanDays == computeSpanDays(nonVent)
    IN  /\ ~(Len(nonVent) < 4)
        /\ ~IsNull(spanDays)
        /\ ~(spanDays[1] < 6)

---------------------------------------------------------------------------
(* JSON.parse.  A parsed value is a record tagged by t: "null", "bool"     *)
(* (b), "num" (s: the number's text), "str" (s), "arr" (items), "obj"      *)
(* (members: the key/value pairs in text order; the last pair of a key is  *)
(* the property's value).                                                  *)

JNull == [t |-> "null"]

JBool(b) == [t |-> "bool", b |-> b]

JNum(lexeme) == [t |-> "num", s |-> lexeme]

JStr(s) == [t |-> "str", s |-> s]

JArr(items) == [t |-> "arr", items |-> items]

JObj(members) == [t |-> "obj", members |-> members]

NoParse == [ok |-> FALSE]

Parsed(v, p) == [ok |-> TRUE, v |-> v, p |-> p]

IsJsonSpace(c) == c \in {" ", "\t", "\n", "\r"}

skipJsonSpace(s, p) == skipWhile(s, p, IsJsonSpace)

IsHex(c) == IsDigit(c) \/ c \in {"a", "b", "c", "d", "e", "f", "A", "B", "C", "D", "E", "F"}

HexVal(c) ==
    IF IsDigit(c) THEN CharCode(c) - 48
    ELSE IF IsLower(c) THEN CharCode(c) - 87
    ELSE CharCode(c) - 55

\* String.fromCharCode for the characters of the model; any other code unit
\* is the one character "UFFFD".
CharOfCode(n) ==
    IF n \in 32..126 THEN AsciiChars[n - 31]
    ELSE IF n = 10 THEN "\n"
    ELSE IF n = 9 THEN "\t"
    ELSE IF n = 13 THEN "\r"
    ELSE IF n = 8 THEN "U0008"
    ELSE IF n = 12 THEN "U000C"
    ELSE IF n = 8217 THEN "U2019"
    ELSE IF n = 8230 THEN "U2026"
    ELSE "UFFFD"

\* One step of the scan of a string literal: st.p is the next position to
\* read, st.acc the characters so far, st.r the result once the literal has
\* ended or failed.
jsonCharStep(s, st, i) ==
    IF st.done \/ i < st.p THEN st
    ELSE IF s[i] = "\"" THEN [st EXCEPT !.done = TRUE, !.r = Parsed(JStr(st.acc), i + 1)]
    ELSE IF s[i] = "\\" THEN
        IF i + 1 > Len(s) THEN [st EXCEPT !.done = TRUE]
        ELSE LET e == s[i + 1] IN
            IF e \in {"\"", "\\", "/"} THEN [st EXCEPT !.p = i + 2, !.acc = Append(@, e)]
            ELSE IF e = "b" THEN [st EXCEPT !.p = i + 2, !.acc = Append(@, "U0008")]
            ELSE IF e = "f" THEN [st EXCEPT !.p = i + 2, !.acc = Append(@, "U000C")]
            ELSE IF e = "n" THEN [st EXCEPT !.p = i + 2, !.acc = Append(@, "\n")]
            ELSE IF e = "r" THEN [st EXCEPT !.p = i + 2, !.acc = Append(@, "\r")]
            ELSE IF e = "t" THEN [st EXCEPT !.p = i + 2, !.acc = Append(@, "\t")]
            ELSE IF e = "u" THEN
                IF i + 5 <= Len(s) /\ \A k \in 2..5 : IsHex(s[i + k])
                THEN [st EXCEPT !.p = i + 6,
                                !.acc = Append(@, CharOfCode(4096 * HexVal(s[i + 2])
                                                   + 256 * HexVal(s[i + 3])
                                                   + 16 * HexVal(s[i + 4]) + HexVal(s[i + 5])))]
                ELSE [st EXCEPT !.done = TRUE]
            ELSE [st EXCEPT !.done = TRUE]
    ELSE IF CharCode(s[i]) < 32 THEN [st EXCEPT !.done = TRUE]
    ELSE [st EXCEPT !.p = i + 1, !.acc = Append(@, s[i])]

IsPlainJsonChar(c) == c \notin {"\"", "\\", "\n", "\t", "\r", "U0008", "U000C"}

\* A string literal that may hold escapes, scanned character by character.
parseJsonEscapedChars(s, p) ==
    LET Step(st, i) == jsonCharStep(s, st, i) IN
    forRange(Step, [p |-> p, acc |-> <<>>, done |-> FALSE, r |-> NoParse], p, Len(s)).r

\* q is the first position from p that holds a quote, a backslash or a
\* control character.
jsonCharsUpTo(s, p, q) ==
    IF q <= Len(s) /\ s[q] = "\"" THEN Parsed(JStr(SubSeq(s, p, q - 1)), q + 1)
    ELSE parseJsonEscapedChars(s, p)

\* The characters of a string literal from position p (after the opening
\* quote) to its closing quote.
parseJsonChars(s, p) == jsonCharsUpTo(s, p, skipWhile(s, p, IsPlainJsonChar))

skipDigits(s, p) == skipWhile(s, p, IsDigit)

\* A number: -? (0 | [1-9][0-9]*) (\. [0-9]+)? ([eE] [+-]? [0-9]+)?, read from
\* p; p1 is after the sign, p2 after the integer part, f1 after the
\* fraction, e1 after the exponent's sign, e2 after the exponent.
numberExpEnd(s, p, e1, e2) ==
    IF e2 = e1 THEN NoParse ELSE Parsed(JNum(SubSeq(s, p, e2 - 1)), e2)

numberExp(s, p, f1) ==
    IF f1 <= Len(s) /\ s[f1] \in {"e", "E"}
    THEN IF f1 + 1 <= Len(s) /\ s[f1 + 1] \in {"+", "-"}
         THEN numberExpEnd(s, p, f1 + 2, skipDigits(s, f1 + 2))
         ELSE numberExpEnd(s, p, f1 + 1, skipDigits(s, f1 + 1))
    ELSE Parsed(JNum(SubSeq(s, p, f1 - 1)), f1)

numberFracEnd(s, p, p2, f1) == IF f1 = p2 + 1 THEN NoParse ELSE numberExp(s, p, f1)

numberFrac(s, p, p1, p2) ==
    IF p2 = p1 THEN NoParse
    ELSE IF p2 <= Len(s) /\ s[p2] = "." THEN numberFracEnd(s, p, p2, skipDigits(s, p2 + 1))
    ELSE numberExp(s, p, p2)

numberInt(s, p, p1) ==
    IF p1 <= Len(s) /\ s[p1] = "0" THEN numberFrac(s, p, p1, p1 + 1)
    ELSE numberFrac(s, p, p1, skipDigits(s, p1))

parseJsonNumber(s, p) == IF s[p] = "-" THEN numberInt(s, p, p + 1) ELSE numberInt(s, p, p)

parseJsonLiteral(s, p, word, v) ==
    IF startsWithAt(s, word, p - 1) THEN Parsed(v, p + Len(word)) ELSE NoParse

RECURSIVE parseJsonValue(_, _)
RECURSIVE parseJsonElements(_, _, _)
RECURSIVE parseJsonMembers(_, _, _)

\* After an element of an array: q is at the "," or the "]".
elementSep(s, q, items) ==
    IF q > Len(s) THEN NoParse
    ELSE IF s[q] = "," THEN parseJsonElements(s, q + 1, items)
    ELSE IF s[q] = "]" THEN Parsed(JArr(items), q + 1)
    ELSE NoParse

elementNext(s, r, acc) ==
    IF ~r.ok THEN NoParse ELSE elementSep(s, skipJsonSpace(s, r.p), Append(acc, r.v))

\* The elements of an array after "[" or after a ",": p is at the next value.
parseJsonElements(s, p, acc) == elementNext(s, parseJsonValue(s, p), acc)

\* After a member of an object: q is at the "," or the "}".
memberSep(s, q, members) ==
    IF q > Len(s) THEN NoParse
    ELSE IF s[q] = "," THEN parseJsonMembers(s, q + 1, members)
    ELSE IF s[q] = "}" THEN Parsed(JObj(members), q + 1)
    ELSE NoParse

memberNext(s, key, r, acc) ==
    IF ~r.ok THEN NoParse
    ELSE memberSep(s, skipJsonSpace(s, r.p), Append(acc, [k |-> key, v |-> r.v]))

memberValue(s, key, c, acc) ==
    IF c > Len(s) \/ s[c] # ":" THEN NoParse
    ELSE memberNext(s, key, parseJsonValue(s, c + 1), acc)

memberColon(s, k, acc) ==
    IF ~k.ok THEN NoParse ELSE memberValue(s, k.v.s, skipJsonSpace(s, k.p), acc)

memberKey(s, k0, acc) ==
    IF k0 > Len(s) \/ s[k0] # "\"" THEN NoParse
    ELSE memberColon(s, parseJsonChars(s, k0 + 1), acc)

\* The members of an object after "{" or after a ",": p is at the next key.
parseJsonMembers(s, p, acc) == memberKey(s, skipJsonSpace(s, p), acc)

objectAt(s, q) ==
    IF q <= Len(s) /\ s[q] = "}" THEN Parsed(JObj(<<>>), q + 1)
    ELSE parseJsonMembers(s, q, <<>>)

arrayAt(s, q) ==
    IF q <= Len(s) /\ s[q] = "]" THEN Parsed(JArr(<<>>), q + 1)
    ELSE parseJsonElements(s, q, <<>>)

valueAt(s, p) ==
    IF p > Len(s) THEN NoParse
    ELSE IF s[p] = "{" THEN objectAt(s, skipJsonSpace(s, p + 1))
    ELSE IF s[p] = "[" THEN arrayAt(s, skipJsonSpace(s, p + 1))
    ELSE IF s[p] = "\"" THEN parseJsonChars(s, p + 1)
    ELSE IF s[p] = "t" THEN parseJsonLiteral(s, p, <<"t", "r", "u", "e">>, JBool(TRUE))
    ELSE IF s[p] = "f" THEN parseJsonLiteral(s, p, <<"f", "a", "l", "s", "e">>, JBool(FALSE))
    ELSE IF s[p] = "n" THEN parseJsonLiteral(s, p, <<"n", "u", "l", "l">>, JNull)
    ELSE IF s[p] = "-" \/ IsDigit(s[p]) THEN parseJsonNumber(s, p)
    ELSE NoParse

parseJsonValue(s, p0) == valueAt(s, skipJsonSpace(s, p0))

wholeText(text, r) == IF r.ok /\ skipJsonSpace(text, r.p) > Len(text) THEN Some(r.v) ELSE Null

\* JSON.parse(text): the value, or null when it throws.
JSONparse(text) == wholeText(text, parseJsonValue(text, 1))

---------------------------------------------------------------------------
(* The output recovery parser.                                             *)

\* \w of a regular expression.
IsWordChar(c) == IsUpper(c) \/ IsLower(c) \/ IsDigit(c) \/ c = "_"

IsIdentStart(c) == IsUpper(c) \/ IsLower(c) \/ c = "_"

skipSpace(s, p) == skipWhile(s, p, IsSpace)

skipWordChars(s, p) == skipWhile(s, p, IsWordChar)

IsPlainQuoted(c) == c # "'" /\ c # "\\"

\* The end of [^'\\]* from p.
skipQuoted(s, p) == skipWhile(s, p, IsPlainQuoted)

NoMatch == [ok |-> FALSE]

Match(next, out) == [ok |-> TRUE, next |-> next, out |-> out]

\* s.replace(/re/g, ...): MatchAt(s, p) is the match of the expression that
\* starts at position p (its replacement and the position after it), if any;
\* matches are taken left to right and do not overlap.
replaceAll(s, MatchAt(_, _)) ==
    LET Step(st, p) ==
            IF p < st.next THEN st
            ELSE LET m == MatchAt(s, p) IN
                 IF m.ok THEN [out |-> st.out \o m.out, next |-> m.next]
                 ELSE [out |-> Append(st.out, s[p]), next |-> p + 1]
    IN  forRange(Step, [out |-> <<>>, next |-> 1], 1, Len(s)).out

\* /,\s*([}\]])/g -> '$1'
matchTrailingComma(s, p) ==
    IF s[p] # "," THEN NoMatch
    ELSE LET q == skipSpace(s, p + 1) IN
         IF q <= Len(s) /\ s[q] \in {"}", "]"} THEN Match(q + 1, <<s[q]>>) ELSE NoMatch

\* /\bword\b/g -> repl
matchWord(s, p, word, repl) ==
    IF /\ startsWithAt(s, word, p - 1)
       /\ (p = 1 \/ ~IsWordChar(s[p - 1]))
       /\ (p + Len(word) > Len(s) \/ ~IsWordChar(s[p + Len(word)]))
    THEN Match(p + Len(word), repl)
    ELSE NoMatch

matchTrue(s, p) == matchWord(s, p, <<"T", "r", "u", "e">>, <<"t", "r", "u", "e">>)

matchFalse(s, p) == matchWord(s, p, <<"F", "a", "l", "s", "e">>, <<"f", "a", "l", "s", "e">>)

matchNone(s, p) == matchWord(s, p, <<"N", "o", "n", "e">>, <<"n", "u", "l", "l">>)

\* A variant of matchUnquotedKey that quotes a key only after an opening
\* brace, which C16 must tell from it.
matchUnquotedKeyAfterBrace(s, p) ==
    IF s[p] # "{" THEN NoMatch
    ELSE LET k == skipSpace(s, p + 1) IN
         IF k > Len(s) \/ ~IsIdentStart(s[k]) THEN NoMatch
         ELSE LET e == skipWordChars(s, k)
                  c == skipSpace(s, e)
              IN  IF c <= Len(s) /\ s[c] = ":"
                  THEN Match(c + 1, SubSeq(s, p, k - 1) \o <<"\"">> \o SubSeq(s, k, e - 1)
                                      \o <<"\"">> \o SubSeq(s, e, c))
                  ELSE NoMatch

\* /([{\[,]\s*)([A-Za-z_][A-Za-z0-9_]*)(\s*:)/g -> '$1"$2"$3'
matchUnquotedKey(s, p) ==
    IF s[p] \notin {"{", "[", ","} THEN NoMatch
    ELSE LET k == skipSpace(s, p + 1) IN
         IF k > Len(s) \/ ~IsIdentStart(s[k]) THEN NoMatch
         ELSE LET e == skipWordChars(s, k)
                  c == skipSpace(s, e)
              IN  IF c <= Len(s) /\ s[c] = ":"
                  THEN Match(c + 1, SubSeq(s, p, k - 1) \o <<"\"">> \o SubSeq(s, k, e - 1)
                                      \o <<"\"">> \o SubSeq(s, e, c))
                  ELSE NoMatch

\* s1.replace(/"/g, '\\"')
escapeQuotes(s) ==
    LET Step(out, i) == out \o (IF s[i] = "\"" THEN <<"\\", "\"">> ELSE <<s[i]>>) IN
    forRange(Step, <<>>, 1, Len(s))

\* /:\s*'([^'\\]*)'/g -> : "${s1}"
matchSingleQuotedValue(s, p) ==
    IF s[p] # ":" THEN NoMatch
    ELSE LET q == skipSpace(s, p + 1) IN
         IF q > Len(s) \/ s[q] # "'" THEN NoMatch
         ELSE LET e == skipQuoted(s, q + 1) IN
              IF e <= Len(s) /\ s[e] = "'"
              THEN Match(e + 1, <<":", " ", "\"">> \o escapeQuotes(SubSeq(s, q + 1, e - 1))
                                  \o <<"\"">>)
              ELSE NoMatch

\* /,\s*'([^'\\]*)'\s*([}\]])/g -> , "${s1}"${tail}
matchSingleQuotedLast(s, p) ==
    IF s[p] # "," THEN NoMatch
    ELSE LET q == skipSpace(s, p + 1) IN
         IF q > Len(s) \/ s[q] # "'" THEN NoMatch
         ELSE LET e == skipQuoted(s, q + 1) IN
              IF e > Len(s) \/ s[e] # "'" THEN NoMatch
              ELSE LET t == skipSpace(s, e + 1) IN
                   IF t <= Len(s) /\ s[t] \in {"}", "]"}
                   THEN Match(t + 1, <<",", " ", "\"">>
                                       \o escapeQuotes(SubSeq(s, q + 1, e - 1))
                                       \o <<"\"", s[t]>>)
                   ELSE NoMatch

\* The repairs of tryParseJsonLoose, in the source's order.
repairJson(input) ==
    LET r1 == replaceAll(input, matchTrailingComma)
        r2 == replaceAll(r1, matchTrue)
        r3 == replaceAll(r2, matchFalse)
        r4 == replaceAll(r3, matchNone)
        r5 == replaceAll(r4, matchUnquotedKey)
        r6 == replaceAll(r5, matchSingleQuotedValue)
    IN  replaceAll(r6, matchSingleQuotedLast)

orRepaired(strict, input) ==
    IF ~IsNull(strict) THEN strict ELSE JSONparse(repairJson(input))

\* tryParseJsonLoose: the strict parse, else one strict parse of the repaired
\* text, else null.
tryParseJsonLoose(input) == orRepaired(JSONparse(input), input)

Fence == <<"U0060", "U0060", "U0060">>

\* inside.replace(/^\s*json\s*\n/i, ''): the greedy \s* before \n takes the
\* match to the last line break of the white space after the tag.
IsNotNewline(c) == c # "\n"

lastNewlineBefore(s, from, to) ==
    LET q == skipWhileBack(s, to, IsNotNewline) IN IF q >= from THEN q ELSE 0

stripLanguageTag(inside) ==
    LET j == skipSpace(inside, 1) IN
    IF startsWithAt(toLowerCase(inside), <<"j", "s", "o", "n">>, j - 1)
    THEN LET w  == skipSpace(inside, j + 4)
             nl == lastNewlineBefore(inside, j + 4, w - 1)
         IN  IF nl > 0 THEN SubSeq(inside, nl + 1, Len(inside)) ELSE inside
    ELSE inside

\* A variant of stripCodeFences that keeps the whole text, fenced or not,
\* which C15 must tell from it.
stripCodeFencesWholeText(text) == trim(text)

stripCodeFences(text) ==
    LET fenceStart == indexOf(text, Fence, 0) IN
    IF fenceStart = -1 THEN trim(text)
    ELSE LET fenceEnd == indexOf(text, Fence, fenceStart + 3) IN
         IF fenceEnd = -1 THEN trim(text)
         ELSE trim(stripLanguageTag(slice(text, fenceStart + 3, fenceEnd)))

\* One iteration of the inner loop of extractJsonObjects; st.end is the
\* position of the "}" at which the loop broke, 0 while it runs.
scanStep(text, st, i) ==
    LET ch == text[i] IN
    IF st.end # 0 THEN st
    ELSE IF st.inString THEN
        IF st.escaping THEN [st EXCEPT !.escaping = FALSE]
        ELSE IF ch = "\\" THEN [st EXCEPT !.escaping = TRUE]
        ELSE IF ch = "\"" THEN [st EXCEPT !.inString = FALSE]
        ELSE st
    ELSE IF ch = "\"" THEN [st EXCEPT !.inString = TRUE]
    ELSE IF ch = "{" THEN [st EXCEPT !.depth = @ + 1]
    ELSE IF ch = "}" THEN
        IF st.depth - 1 = 0 THEN [st EXCEPT !.depth = 0, !.end = i]
        ELSE [st EXCEPT !.depth = @ - 1]
    ELSE st

\* The inner loop of extractJsonObjects from position start: the position of
\* the "}" that brings the depth back to 0, or 0 when the text ends first.
scanBalanced(text, start) ==
    LET Step(st, i) == scanStep(text, st, i) IN
    forRange(Step, [depth |-> 0, inString |-> FALSE, escaping |-> FALSE, end |-> 0],
             start, Len(text)).end

\* One iteration of the outer loop of extractJsonObjects.
extractStep(text, out, start) ==
    IF text[start] # "{" THEN out
    ELSE LET end == scanBalanced(text, start) IN
         IF end = 0 THEN out ELSE Append(out, trim(SubSeq(text, start, end)))

extractJsonObjects(text) ==
    LET Step(out, start) == extractStep(text, out, start) IN
    forRange(Step, <<>>, 1, Len(text))

\* The property of a parsed object: the value of the last member with the
\* key, or undefined (<<>>).
RECURSIVE getMember(_, _, _)
getMember(members, key, i) ==
    IF i = 0 THEN Null
    ELSE IF members[i].k = key THEN Some(members[i].v)
    ELSE getMember(members, key, i - 1)

getProperty(obj, key) == getMember(obj.members, key, Len(obj.members))

KEY_shouldSpeak == <<"s", "h", "o", "u", "l", "d", "S", "p", "e", "a", "k">>

KEY_timeRange == <<"t", "i", "m", "e", "R", "a", "n", "g", "e">>

KEY_reflection == <<"r", "e", "f", "l", "e", "c", "t", "i", "o", "n">>

KEY_themes == <<"t", "h", "e", "m", "e", "s">>

KEY_invitation == <<"i", "n", "v", "i", "t", "a", "t", "i", "o", "n">>

\* z.boolean()
isZodBoolean(p) == ~IsNull(p) /\ p[1].t = "bool"

\* A variant of isZodNullableString that refuses null, which C21 must tell
\* from it.
isZodStringOnly(p) == ~IsNull(p) /\ p[1].t = "str"

\* z.string().nullable(): a string or null, not undefined.
isZodNullableString(p) == ~IsNull(p) /\ p[1].t \in {"str", "null"}

\* z.array(z.string()).default([]): undefined, or an array of strings.
isZodStringArrayOrDefault(p) ==
    \/ IsNull(p)
    \/ /\ p[1].t = "arr"
       /\ \A i \in 1..Len(p[1].items) : p[1].items[i].t = "str"

nullableStringOf(p) == IF p[1].t = "str" THEN Some(p[1].s) ELSE Null

\* modelResponseSchema.safeParse(v).success
schemaAccepts(v) ==
    /\ v.t = "obj"
    /\ isZodBoolean(getProperty(v, KEY_shouldSpeak))
    /\ isZodNullableString(getProperty(v, KEY_timeRange))
    /\ isZodNullableString(getProperty(v, KEY_reflection))
    /\ isZodStringArrayOrDefault(getProperty(v, KEY_themes))
    /\ isZodNullableString(getProperty(v, KEY_invitation))

\* modelResponseSchema.safeParse(v).data, for an accepted v.
schemaData(v) ==
    LET th == getProperty(v, KEY_themes) IN
    [ shouldSpeak |-> getProperty(v, KEY_shouldSpeak)[1].b,
      timeRange   |-> nullableStringOf(getProperty(v, KEY_timeRange)),
      reflection  |-> nullableStringOf(getProperty(v, KEY_reflection)),
      themes      |-> IF IsNull(th) THEN <<>>
                      ELSE [i \in 1..Len(th[1].items) |-> th[1].items[i].s],
      invitation  |-> nullableStringOf(getProperty(v, KEY_invitation)) ]

RECURSIVE bestCandidate(_, _, _)

\* A variant of candidateParsed that returns the first candidate that
\* parses, of the expected shape or not, which C22 must tell from it.
candidateParsedAnyShape(candidates, i, anyParsed, parsed) ==
    IF IsNull(parsed) \/ parsed[1].t = "null" THEN bestCandidate(candidates, i - 1, anyParsed)
    ELSE parsed

\* The body of the loop for a candidate that is not empty: parsed is what
\* tryParseJsonLoose returned for it.
candidateParsed(candidates, i, anyParsed, parsed) ==
    IF IsNull(parsed) \/ parsed[1].t = "null" THEN bestCandidate(candidates, i - 1, anyParsed)
    ELSE IF schemaAccepts(parsed[1]) THEN parsed
    ELSE bestCandidate(candidates, i - 1, parsed)

\* The loop of parseBestJsonFromModelText over candidates[i], i downwards.
bestCandidate(candidates, i, anyParsed) ==
    IF i = 0 THEN anyParsed
    ELSE IF candidates[i] = <<>> THEN bestCandidate(candidates, i - 1, anyParsed)
    ELSE candidateParsed(candidates, i, anyParsed, tryParseJsonLoose(candidates[i]))

lastCandidateFirst(candidates) == bestCandidate(candidates, Len(candidates), Null)

parseBestJsonFromModelText(text) ==
    lastCandidateFirst(extractJsonObjects(stripCodeFences(text)))

---------------------------------------------------------------------------
(* Banned language.                                                        *)

BANNED_SUBSTRINGS ==
    <<
      <<"p", "o", "s", "t", "p", "a", "r", "t", "u", "m", " ", "d", "e", "p", "r", "e", "s",
          "s", "i", "o", "n">>,
      <<"p", "p", "d">>,
      <<"d", "e", "p", "r", "e", "s", "s", "i", "o", "n">>,
      <<"a", "n", "x", "i", "e", "t", "y">>,
      <<"d", "i", "a", "g", "n", "o", "s">>,
      <<"y", "o", "u", " ", "s", "h", "o", "u", "l", "d">>,
      <<"t", "r", "y", " ">>,
      <<"i", "t", " ", "m", "i", "g", "h", "t", " ", "h", "e", "l", "p">>,
      <<"y", "o", "u", " ", "n", "e", "e", "d", " ", "t", "o">>,
      <<"e", "v", "e", "r", "y", "t", "h", "i", "n", "g", " ", "w", "i", "l", "l", " ", "b",
          "e", " ", "o", "k", "a", "y">>,
      <<"y", "o", "u", "'", "r", "e", " ", "d", "o", "i", "n", "g", " ", "g", "r", "e", "a",
          "t">>,
      <<"a", "t", " ", "l", "e", "a", "s", "t">>,
      <<"t", "h", "e", " ", "g", "o", "o", "d", " ", "n", "e", "w", "s", " ", "i", "s">>,
      <<"p", "r", "o", "g", "r", "e", "s", "s">>,
      <<"g", "r", "o", "w", "t", "h">>,
      <<"r", "e", "s", "i", "l", "i", "e", "n", "c", "e">>
    >>

\* A variant of includesBannedLanguage that compares without lowering the
\* text, which C9 must tell from it.
includesBannedLanguageCaseSensitive(text) ==
    \E k \in 1..Len(BANNED_SUBSTRINGS) : includes(text, BANNED_SUBSTRINGS[k])

includesBannedLanguage(text) ==
    LET lower == toLowerCase(text) IN
    \E k \in 1..Len(BANNED_SUBSTRINGS) : includes(lower, BANNED_SUBSTRINGS[k])

\* sanitizeOutput(...).ok
sanitizeOutput(reflection, themes) ==
    LET combined == join(<<IF IsNull(reflection) THEN <<>> ELSE reflection[1]>> \o themes,
                         <<"\n">>)
    IN  IF trim(combined) = <<>> THEN TRUE
        ELSE ~includesBannedLanguage(combined)

---------------------------------------------------------------------------
(* resolveModelName and runOnce.                                           *)

MODELS_PREFIX == <<"m", "o", "d", "e", "l", "s", "/">>

DEFAULT_MODEL ==
    <<"m", "o", "d", "e", "l", "s", "/", "g", "e", "m", "i", "n", "i", "-", "2", ".", "0", "-",
      "f", "l", "a", "s", "h">>

preferredPrefixes ==
    <<
      <<"m", "o", "d", "e", "l", "s", "/", "g", "e", "m", "i", "n", "i", "-", "2", ".", "5",
          "-", "f", "l", "a", "s", "h">>,
      <<"m", "o", "d", "e", "l", "s", "/", "g", "e", "m", "i", "n", "i", "-", "2", ".", "5",
          "-", "f", "l", "a", "s", "h", "-", "l", "i", "t", "e">>,
      <<"m", "o", "d", "e", "l", "s", "/", "g", "e", "m", "i", "n", "i", "-", "2", ".", "0",
          "-", "f", "l", "a", "s", "h">>,
      <<"m", "o", "d", "e", "l", "s", "/", "g", "e", "m", "i", "n", "i", "-", "2", ".", "0",
          "-", "f", "l", "a", "s", "h", "-", "l", "i", "t", "e">>,
      <<"m", "o", "d", "e", "l", "s", "/", "g", "e", "m", "i", "n", "i", "-", "1", ".", "5",
          "-", "f", "l", "a", "s", "h">>,
      <<"m", "o", "d", "e", "l", "s", "/", "g", "e", "m", "i", "n", "i", "-", "1", ".", "5",
          "-", "p", "r", "o">>,
      <<"m", "o", "d", "e", "l", "s", "/", "g", "e", "m", "i", "n", "i", "-", "1", ".", "0",
          "-", "p", "r", "o">>
    >>

normalizeModelName(name) ==
    LET trimmed == trim(name) IN
    IF trimmed = <<>> THEN trimmed
    ELSE IF startsWith(trimmed, MODELS_PREFIX) THEN trimmed
    ELSE MODELS_PREFIX \o trimmed

\* The part of resolveModelName before its fetch: the name, or null when the
\* model list has to be fetched.
resolveModelNameCached(e, cached) ==
    IF ~IsNull(e.GEMINI_MODEL) /\ e.GEMINI_MODEL[1] # <<>>
    THEN Some(normalizeModelName(e.GEMINI_MODEL[1]))
    ELSE IF ~IsNull(cached) /\ cached[1] # <<>> THEN cached
    ELSE IF ~e.GEMINI_API_KEY THEN Some(DEFAULT_MODEL)
    ELSE Null

supportsGenerateContent(m) == m.generateContent /\ ~IsNull(m.name)

RECURSIVE firstWithPrefix(_, _, _)
firstWithPrefix(models, prefix, i) ==
    IF i > Len(models) THEN Null
    ELSE IF startsWith(models[i].name[1], prefix) THEN models[i].name
    ELSE firstWithPrefix(models, prefix, i + 1)

RECURSIVE firstPreferred(_, _)
firstPreferred(models, k) ==
    IF k > Len(preferredPrefixes) THEN Null
    ELSE LET hit == firstWithPrefix(models, preferredPrefixes[k], 1) IN
         IF ~IsNull(hit) /\ hit[1] # <<>> THEN hit
         ELSE firstPreferred(models, k + 1)

\* The part of resolveModelName after its fetch: the name it stores in
\* cachedModelName and returns. res.kind is "throws" (fetch or res.json()
\* rejects), "notOk" (res.ok is false) or "ok" (res.models: the array, empty
\* when the body holds none).
resolveModelNameFetched(res) ==
    IF res.kind # "ok" THEN DEFAULT_MODEL
    ELSE LET usable == SelectSeq(res.models, supportsGenerateContent)
             hit    == firstPreferred(usable, 1)
         IN  IF ~IsNull(hit) THEN hit[1]
             ELSE IF usable # <<>> /\ usable[1].name[1] # <<>> THEN usable[1].name[1]
             ELSE DEFAULT_MODEL

\* extractRetryAfterSeconds: retryDelay is the RetryInfo detail's retryDelay
\* when it is a string, else null; the pattern is /^(\d+)s$/.
extractRetryAfterSeconds(retryDelay) ==
    IF IsNull(retryDelay) THEN Null
    ELSE LET d == retryDelay[1] IN
         IF /\ Len(d) >= 2
            /\ d[Len(d)] = "s"
            /\ \A i \in 1..(Len(d) - 1) : IsDigit(d[i])
         THEN Some(digitsToNumber(SubSeq(d, 1, Len(d) - 1)))
         ELSE Null

RECURSIVE concatAll(_)
concatAll(parts) == IF parts = <<>> THEN <<>> ELSE Head(parts) \o concatAll(Tail(parts))

\* runOnce: the ModelAttempt for what the provider did. o.kind is "throws"
\* (status, message, retryDelay of the thrown error) or "streams"
\* (streamedText: the chunks' text; parts: candidates[0].content.parts or
\* null; responseText: response.text(); finishReason).
runOnce(modelName, o) ==
    IF o.kind = "throws"
    THEN [ ok                |-> FALSE,
           modelName         |-> modelName,
           errorStatus       |-> o.status,
           errorMessage      |-> IF IsNull(o.message) THEN "Gemini request failed."
                                 ELSE o.message[1],
           retryAfterSeconds |-> extractRetryAfterSeconds(o.retryDelay) ]
    ELSE LET partsCount == IF IsNull(o.parts) THEN Null ELSE Some(Len(o.parts[1]))
             joinedText == IF ~IsNull(o.parts) /\ Len(o.parts[1]) > 0
                           THEN Some(concatAll(o.parts[1]))
                           ELSE Null
             aggregatedText == IF ~IsNull(joinedText) THEN joinedText[1] ELSE o.responseText
             text == IF Len(o.streamedText) >= Len(aggregatedText)
                     THEN o.streamedText
                     ELSE aggregatedText
         IN  [ ok           |-> TRUE,
               modelName    |-> modelName,
               text         |-> text,
               finishReason |-> o.finishReason,
               partsCount   |-> partsCount ]

---------------------------------------------------------------------------
(* generateJournalPatterns.                                                *)

Undefined == <<>>

Ok(value) == [ok |-> TRUE, value |-> value]

Err(message) == [ok |-> FALSE, error |-> [message |-> message]]

patternValue(shouldSpeak, reflection, themes, timeRange, debug) ==
    [ shouldSpeak |-> shouldSpeak,
      reflection  |-> reflection,
      themes      |-> themes,
      invitation  |-> Null,
      timeRange   |-> timeRange,
      debug       |-> debug ]

silentValue(debug) == patternValue(FALSE, Null, <<>>, Null, debug)

SUFFIX_BANNED_LANGUAGE ==
    <<",", " ", "I", "U2019", "m", " ", "n", "o", "t", "i", "c", "i", "n", "g", " ", "s", "o",
      "m", "e", " ", "r", "e", "p", "e", "a", "t", "i", "n", "g", " ", "t", "h", "r", "e", "a",
      "d", "s", ",", " ", "b", "u", "t", " ", "I", " ", "c", "a", "n", "U2019", "t", " ", "p",
      "u", "t", " ", "t", "h", "e", "m", " ", "i", "n", "t", "o", " ", "w", "o", "r", "d", "s",
      " ", "c", "l", "e", "a", "n", "l", "y", " ", "r", "i", "g", "h", "t", " ", "n", "o", "w",
      ".">>

SUFFIX_MODEL_SILENCE ==
    <<",", " ", "I", "U2019", "m", " ", "n", "o", "t", " ", "s", "e", "e", "i", "n", "g", " ",
      "a", " ", "c", "l", "e", "a", "r", " ", "r", "e", "p", "e", "a", "t", "i", "n", "g", " ",
      "p", "a", "t", "t", "e", "r", "n", " ", "y", "e", "t", ".">>

\* themes.map((t) => t.trim()).filter(Boolean)
RECURSIVE trimmedNonEmpty(_)
trimmedNonEmpty(themes) ==
    IF themes = <<>> THEN <<>>
    ELSE (IF trim(Head(themes)) = <<>> THEN <<>> ELSE <<trim(Head(themes))>>)
         \o trimmedNonEmpty(Tail(themes))

\* A variant of gateDebug that names not_enough_entries for up to 4 entries,
\* which C2 must tell from it.
gateDebugUpToFour(nonVent) ==
    [ attempted    |-> FALSE,
      reason       |-> IF Len(nonVent) <= 4 THEN "not_enough_entries" ELSE "not_enough_span",
      entriesCount |-> Len(nonVent),
      spanDays     |-> computeSpanDays(nonVent),
      modelName    |-> Null ]

\* The debug object of the gate's return (lines 481-489).
gateDebug(nonVent) ==
    [ attempted    |-> FALSE,
      reason       |-> IF Len(nonVent) < 4 THEN "not_enough_entries" ELSE "not_enough_span",
      entriesCount |-> Len(nonVent),
      spanDays     |-> computeSpanDays(nonVent),
      modelName    |-> Null ]

\* The debug object of a failed attempt (lines 610-619).
errorDebug(entries, attempt) ==
    [ attempted         |-> TRUE,
      reason            |-> IF attempt.errorStatus = Some(429) THEN "rate_limited"
                            ELSE "model_error",
      entriesCount      |-> Len(nonVentOf(entries)),
      spanDays          |-> computeSpanDays(nonVentOf(entries)),
      modelName         |-> Some(attempt.modelName),
      errorStatus       |-> attempt.errorStatus,
      errorMessage      |-> attempt.errorMessage,
      retryAfterSeconds |-> attempt.retryAfterSeconds ]

\* The debug object of the returns after a successful attempt.
replyDebug(entries, attempt, reason) ==
    [ attempted     |-> TRUE,
      reason        |-> reason,
      entriesCount  |-> Len(nonVentOf(entries)),
      spanDays      |-> computeSpanDays(nonVentOf(entries)),
      modelName     |-> Some(attempt.modelName),
      finishReason  |-> attempt.finishReason,
      outputLength  |-> Len(attempt.text),
      outputPreview |-> slice(stripCodeFences(attempt.text), 0, 600) ]

whenDebug(debug, d) == IF debug THEN Some(d) ELSE Undefined

\* Lines 470-496: the gate and the configuration check. The result returned
\* before any await, or null when the function goes on to the provider.
gateResult(entries, debug, e) ==
    IF ~shouldAttemptLongitudinalAnalysis(entries)
    THEN Some(Ok(silentValue(whenDebug(debug, gateDebug(nonVentOf(entries))))))
    ELSE IF ~e.GEMINI_API_KEY THEN Some(Err("Gemini is not configured."))
    ELSE Null

\* Lines 701-730: the neutral reflection returned for banned language.
bannedLanguageValue(timeRange, debug) ==
    patternValue(TRUE, Some(timeRange \o SUFFIX_BANNED_LANGUAGE), <<>>, Some(timeRange), debug)

\* Lines 732-759: the neutral reflection returned when the model chose not
\* to speak.
modelSilenceValue(timeRange, debug) ==
    patternValue(TRUE, Some(timeRange \o SUFFIX_MODEL_SILENCE), <<>>, Some(timeRange), debug)

\* A variant of spokeValue that passes the model's invitation on, which C10
\* must tell from it.
spokeValueWithInvitation(reflection, data, debug) ==
    [ patternValue(TRUE, Some(reflection), trimmedNonEmpty(data.themes),
                   IF IsNull(data.timeRange) \/ trim(data.timeRange[1]) = <<>>
                   THEN Null
                   ELSE Some(trim(data.timeRange[1])),
                   debug)
      EXCEPT !.invitation = data.invitation ]

\* A variant of spokeValue that drops the model's themes, which C17 must
\* tell from it.
spokeValueWithoutThemes(reflection, data, debug) ==
    patternValue(TRUE, Some(reflection), <<>>,
                 IF IsNull(data.timeRange) \/ trim(data.timeRange[1]) = <<>>
                 THEN Null
                 ELSE Some(trim(data.timeRange[1])),
                 debug)

\* Lines 789-811: the value that carries the model's reflection.
spokeValue(reflection, data, debug) ==
    patternValue(TRUE, Some(reflection), trimmedNonEmpty(data.themes),
                 IF IsNull(data.timeRange) \/ trim(data.timeRange[1]) = <<>>
                 THEN Null
                 ELSE Some(trim(data.timeRange[1])),
                 debug)

\* A variant of validatedValue without the guard of lines 761-787, which
\* C11 must tell from it: a blank reflection is passed on.
validatedValueNoBlankGuard(entries, debug, attempt, data) ==
    LET nonVent   == nonVentOf(entries)
        timeRange == describeTimeRange(computeSpanDays(nonVent))
    IN  IF ~sanitizeOutput(data.reflection, data.themes)
        THEN bannedLanguageValue(timeRange,
                 whenDebug(debug, replyDebug(entries, attempt, "banned_language")))
        ELSE IF ~data.shouldSpeak
        THEN modelSilenceValue(timeRange,
                 whenDebug(debug, replyDebug(entries, attempt, "model_silence")))
        ELSE spokeValue(trim(IF IsNull(data.reflection) THEN <<>> ELSE data.reflection[1]),
                        data, whenDebug(debug, replyDebug(entries, attempt, "spoke")))

\* A variant of validatedValue that looks at shouldSpeak before it looks for
\* banned language, which C18 must tell from it.
validatedValueSilenceFirst(entries, debug, attempt, data) ==
    LET nonVent   == nonVentOf(entries)
        timeRange == describeTimeRange(computeSpanDays(nonVent))
    IN  IF ~data.shouldSpeak
        THEN modelSilenceValue(timeRange,
                 whenDebug(debug, replyDebug(entries, attempt, "model_silence")))
        ELSE IF ~sanitizeOutput(data.reflection, data.themes)
        THEN bannedLanguageValue(timeRange,
                 whenDebug(debug, replyDebug(entries, attempt, "banned_language")))
        ELSE LET reflection == trim(IF IsNull(data.reflection) THEN <<>> ELSE data.reflection[1])
             IN  IF reflection = <<>>
                 THEN silentValue(whenDebug(debug, replyDebug(entries, attempt,
                                                              "empty_reflection")))
                 ELSE spokeValue(reflection, data,
                                 whenDebug(debug, replyDebug(entries, attempt, "spoke")))

\* Lines 697-811: the value for a reply that passed the schema.
validatedValue(entries, debug, attempt, data) ==
    LET nonVent   == nonVentOf(entries)
        timeRange == describeTimeRange(computeSpanDays(nonVent))
    IN  IF ~sanitizeOutput(data.reflection, data.themes)
        THEN bannedLanguageValue(timeRange,
                 whenDebug(debug, replyDebug(entries, attempt, "banned_language")))
        ELSE IF ~data.shouldSpeak
        THEN modelSilenceValue(timeRange,
                 whenDebug(debug, replyDebug(entries, attempt, "model_silence")))
        ELSE LET reflection == trim(IF IsNull(data.reflection) THEN <<>> ELSE data.reflection[1])
             IN  IF reflection = <<>>
                 THEN silentValue(whenDebug(debug, replyDebug(entries, attempt,
                                                              "empty_reflection")))
                 ELSE spokeValue(reflection, data,
                                 whenDebug(debug, replyDebug(entries, attempt, "spoke")))

\* Lines 634-811: the result for the reply's text, parsedJson being what
\* parseBestJsonFromModelText made of it.
parsedResult(entries, debug, attempt, parsedJson) ==
    IF IsNull(parsedJson)
    THEN Ok(silentValue(whenDebug(debug, replyDebug(entries, attempt, "invalid_json"))))
    ELSE IF ~schemaAccepts(parsedJson[1])
    THEN Ok(silentValue(whenDebug(debug, replyDebug(entries, attempt, "invalid_shape"))))
    ELSE Ok(validatedValue(entries, debug, attempt, schemaData(parsedJson[1])))

\* A variant of attemptResult that answers a failed provider call with the
\* failure of the catch clause, which C13 must tell from it.
attemptResultFailing(entries, debug, attempt) ==
    IF ~attempt.ok
    THEN Err("Failed to generate patterns.")
    ELSE parsedResult(entries, debug, attempt, parseBestJsonFromModelText(attempt.text))

\* Lines 599-811: the result once runOnce has returned.
attemptResult(entries, debug, attempt) ==
    IF ~attempt.ok
    THEN Ok(silentValue(whenDebug(debug, errorDebug(entries, attempt))))
    ELSE parsedResult(entries, debug, attempt, parseBestJsonFromModelText(attempt.text))

---------------------------------------------------------------------------
(* The route: fingerprint, cache and GET.                                  *)

CACHE_TTL_MS == 5 * 60 * 1000

MAX == 120

RECURSIVE bitXor(_, _)
bitXor(a, b) ==
    IF a = 0 THEN b
    ELSE IF b = 0 THEN a
    ELSE ((a + b) % 2) + 2 * bitXor(a \div 2, b \div 2)

\* One round of stableHash, h = (h * 33) ^ code, on a 32-bit h kept as its
\* two 16-bit halves (the product is taken modulo 2^32 by the ^ operator).
hashStep(h, code) ==
    LET lo33 == h.lo * 33
        hi33 == h.hi * 33 + (lo33 \div 65536)
    IN  [hi |-> hi33 % 65536, lo |-> bitXor(lo33 % 65536, code)]

\* The loop of stableHash over the characters of the input.
hashFrom(h, input) ==
    LET Step(st, i) == hashStep(st, CharCode(input[i])) IN
    forRange(Step, h, 1, Len(input))

HexChars ==
    <<"0", "1", "2", "3", "4", "5", "6", "7", "8", "9", "a", "b", "c", "d", "e", "f">>

\* n.toString(16) for 0 <= n < 65536, and the same padded to four digits.
RECURSIVE toHex(_)
toHex(n) == IF n < 16 THEN <<HexChars[n + 1]>> ELSE toHex(n \div 16) \o <<HexChars[(n % 16) + 1]>>

toHex4(n) ==
    <<HexChars[(n \div 4096) + 1], HexChars[((n \div 256) % 16) + 1],
      HexChars[((n \div 16) % 16) + 1], HexChars[(n % 16) + 1]>>

\* stableHash: (h >>> 0).toString(16) after the rounds from h = 5381.
stableHash(input) ==
    LET h == hashFrom([hi |-> 0, lo |-> 5381], input) IN
    IF h.hi = 0 THEN toHex(h.lo) ELSE toHex(h.hi) \o toHex4(h.lo)

computeEntriesFingerprint(rows) ==
    LET newestDate == IF rows = <<>> THEN <<>> ELSE rows[1].entry_date
        newestBody == IF rows = <<>> THEN <<>> ELSE rows[1].body
        sample     == slice(newestBody, 0, 120)
    IN  stableHash(numberToString(Len(rows)) \o <<"|">> \o newestDate \o <<"|">> \o sample)

orElse(o, d) == IF IsNull(o) THEN d ELSE o[1]

\* rows.map(...) of the route: a row as a JournalPatternInputEntry.
rowToEntry(r) ==
    [ entryDate |-> r.entry_date,
      body      |-> r.body,
      prompt1   |-> orElse(r.prompt_1, <<>>),
      prompt2   |-> orElse(r.prompt_2, <<>>),
      p1Answer  |-> orElse(r.p1_answer, <<>>),
      p2Answer  |-> orElse(r.p2_answer, <<>>),
      ventEntry |-> orElse(r.vent_entry, FALSE) ]

isVentRow(r) == orElse(r.vent_entry, FALSE)

\* rows.map(...).reverse(): oldest to newest.
entriesAllOf(rows) == reverse([i \in 1..Len(rows) |-> rowToEntry(rows[i])])

isEmptySilence(v) ==
    /\ v.shouldSpeak = FALSE
    /\ IsNull(v.reflection)
    /\ IsNull(v.invitation)
    /\ IsNull(v.timeRange)
    /\ Len(v.themes) = 0

\* A variant of isRecent that excludes the age CACHE_TTL_MS itself, which C4
\* must tell from it.
isRecentStrict(cached, nowMs) ==
    /\ ~IsNull(cached)
    /\ nowMs - cached[1].atMs >= 0
    /\ nowMs - cached[1].atMs < CACHE_TTL_MS

\* cached && ageMs >= 0 && ageMs <= CACHE_TTL_MS
isRecent(cached, nowMs) ==
    /\ ~IsNull(cached)
    /\ nowMs - cached[1].atMs >= 0
    /\ nowMs - cached[1].atMs <= CACHE_TTL_MS

\* A variant of isFastPathHit that does not compare fingerprints, which C6
\* must tell from it.
isFastPathHitAnyFingerprint(cached, fingerprint, nowMs) ==
    /\ ~IsNull(cached)
    /\ nowMs - cached[1].atMs >= 0
    /\ nowMs - cached[1].atMs <= CACHE_TTL_MS

\* The condition of the fast path (line 135).
isFastPathHit(cached, fingerprint, nowMs) ==
    /\ ~IsNull(cached)
    /\ cached[1].fingerprint = fingerprint
    /\ isRecent(cached, nowMs)

debugMetaOf(rows) ==
    [ totalCount   |-> Len(rows),
      ventCount    |-> Len(SelectSeq(rows, isVentRow)),
      nonVentCount |-> Len(rows) - Len(SelectSeq(rows, isVentRow)) ]

\* NextResponse.json(body, {status}); a 200 body is the value's own fields
\* (value) with debugMeta and cacheMeta beside them when they are sent.
jsonValue(value, debugMeta, cacheMeta) ==
    [ status |-> 200,
      body   |-> [value |-> value, debugMeta |-> debugMeta, cacheMeta |-> cacheMeta] ]

jsonError(message, status) == [status |-> status, body |-> [error |-> message]]

\* A variant of fastPathResponse that sends debugMeta and cacheMeta whether
\* or not debug is set, which C5 must tell from it.
fastPathResponseAlwaysMeta(cached, debug, rows, fingerprint, nowMs) ==
    jsonValue(cached[1].value, Some(debugMetaOf(rows)),
              Some([ servedFromCache    |-> TRUE,
                     ageSeconds         |-> (nowMs - cached[1].atMs) \div 1000,
                     entriesFingerprint |-> Some(fingerprint) ]))

\* Lines 136-150: the response of the fast path.
fastPathResponse(cached, debug, rows, fingerprint, nowMs) ==
    IF ~debug THEN jsonValue(cached[1].value, Undefined, Undefined)
    ELSE jsonValue(cached[1].value, Some(debugMetaOf(rows)),
                   Some([ servedFromCache    |-> TRUE,
                          ageSeconds         |-> (nowMs - cached[1].atMs) \div 1000,
                          entriesFingerprint |-> Some(fingerprint) ]))

\* Lines 177-190: the response of the fallback to a recent cached value.
fallbackResponse(cached, debug, rows, nowMs) ==
    IF ~debug THEN jsonValue(cached[1].value, Undefined, Undefined)
    ELSE jsonValue(cached[1].value, Some(debugMetaOf(rows)),
                   Some([ servedFromCache    |-> TRUE,
                          ageSeconds         |-> (nowMs - cached[1].atMs) \div 1000,
                          entriesFingerprint |-> Undefined ]))

\* Lines 197-206: the response with the value of this run.
freshResponse(value, debug, rows) ==
    IF ~debug THEN jsonValue(value, Undefined, Undefined)
    ELSE jsonValue(value, Some(debugMetaOf(rows)), Undefined)

\* A variant of usesFallback that takes a slot of any age, which C7 must tell
\* from it.
usesFallbackAnyAge(value, cached, nowMs) == isEmptySilence(value) /\ ~IsNull(cached)

\* Lines 173-176: whether the route answers from the cache after the run.
usesFallback(value, cached, nowMs) == isEmptySilence(value) /\ isRecent(cached, nowMs)

\* A variant of routeAfterPatterns whose fallback renews the timestamp of
\* the slot it serves, which C29 must tell from it.
routeAfterPatternsTouching(patterns, cached, debug, rows, fingerprint, nowMs) ==
    IF ~patterns.ok
    THEN [ response |-> jsonError(patterns.error.message,
                                  IF patterns.error.message = "Gemini is not configured."
                                  THEN 503 ELSE 500),
           slot     |-> cached,
           served   |-> "error" ]
    ELSE IF usesFallback(patterns.value, cached, nowMs)
    THEN [ response |-> fallbackResponse(cached, debug, rows, nowMs),
           slot     |-> Some([cached[1] EXCEPT !.atMs = nowMs]),
           served   |-> "fallback" ]
    ELSE [ response |-> freshResponse(patterns.value, debug, rows),
           slot     |-> Some([ atMs        |-> nowMs,
                               fingerprint |-> fingerprint,
                               value       |-> patterns.value ]),
           served   |-> "fresh" ]

\* Lines 166-206: what the route does with the result of
\* generateJournalPatterns: the response, the user's slot afterwards, and
\* where the response came from.
routeAfterPatterns(patterns, cached, debug, rows, fingerprint, nowMs) ==
    IF ~patterns.ok
    THEN [ response |-> jsonError(patterns.error.message,
                                  IF patterns.error.message = "Gemini is not configured."
                                  THEN 503 ELSE 500),
           slot     |-> cached,
           served   |-> "error" ]
    ELSE IF usesFallback(patterns.value, cached, nowMs)
    THEN [ response |-> fallbackResponse(cached, debug, rows, nowMs),
           slot     |-> cached,
           served   |-> "fallback" ]
    ELSE [ response |-> freshResponse(patterns.value, debug, rows),
           slot     |-> Some([ atMs        |-> nowMs,
                               fingerprint |-> fingerprint,
                               value       |-> patterns.value ]),
           served   |-> "fresh" ]

---------------------------------------------------------------------------
(* The bounded inputs.                                                     *)

\* The rows of the bounded journals, oldest first.

JournalRows ==
    <<
      [ entry_date |-> <<"2", "0", "2", "4", "-", "0", "2", "-", "2", "4">>,
        body       |-> <<"s", "l", "e", "p", "t", " ", "b", "a", "d", "l", "y">>,
        vent_entry |-> Null,
        prompt_1   |-> Null,
        p1_answer  |-> Null,
        prompt_2   |-> Null,
        p2_answer  |-> Null ],
      [ entry_date |-> <<"2", "0", "2", "4", "-", "0", "2", "-", "2", "5">>,
        body       |-> <<"t", "i", "r", "e", "d", " ", "a", "g", "a", "i", "n">>,
        vent_entry |-> Some(FALSE),
        prompt_1   |-> Some(<<"W", "h", "a", "t", " ", "f", "e", "l", "t", " ", "h", "e",
                                "a", "v", "y", "?">>),
        p1_answer  |-> Some(<<"t", "h", "e", " ", "e", "v", "e", "n", "i", "n", "g", "s">>),
        prompt_2   |-> Null,
        p2_answer  |-> Null ],
      [ entry_date |-> <<"2", "0", "2", "4", "-", "0", "2", "-", "2", "6">>,
        body       |-> <<"S", "O", " ", "D", "O", "N", "E">>,
        vent_entry |-> Some(TRUE),
        prompt_1   |-> Null,
        p1_answer  |-> Null,
        prompt_2   |-> Null,
        p2_answer  |-> Null ],
      [ entry_date |-> <<"2", "0", "2", "4", "-", "0", "2", "-", "2", "7">>,
        body       |-> <<"l", "o", "n", "g", " ", "n", "i", "g", "h", "t">>,
        vent_entry |-> Some(FALSE),
        prompt_1   |-> Null,
        p1_answer  |-> Null,
        prompt_2   |-> Null,
        p2_answer  |-> Null ],
      [ entry_date |-> <<"2", "0", "2", "4", "-", "0", "2", "-", "2", "8">>,
        body       |-> <<"q", "u", "i", "e", "t", " ", "d", "a", "y">>,
        vent_entry |-> Some(FALSE),
        prompt_1   |-> Null,
        p1_answer  |-> Null,
        prompt_2   |-> Some(<<"W", "h", "o", " ", "h", "e", "l", "p", "e", "d", "?">>),
        p2_answer  |-> Some(<<>>) ],
      [ entry_date |-> <<"2", "0", "2", "4", "-", "0", "3", "-", "0", "1">>,
        body       |-> <<"e", "v", "e", "n", "i", "n", "g", "s", " ", "a", "r", "e", " ", "h",
                        "a", "r", "d">>,
        vent_entry |-> Some(FALSE),
        prompt_1   |-> Null,
        p1_answer  |-> Null,
        prompt_2   |-> Null,
        p2_answer  |-> Null ],
      [ entry_date |-> <<"2", "0", "2", "4", "-", "0", "3", "-", "0", "8">>,
        body       |-> <<"t", "i", "r", "e", "d", " ", "b", "u", "t", " ", "o", "k">>,
        vent_entry |-> Some(FALSE),
        prompt_1   |-> Null,
        p1_answer  |-> Null,
        prompt_2   |-> Null,
        p2_answer  |-> Null ],
      [ entry_date |-> <<"2", "0", "2", "4", "-", "0", "3", "-", "1", "5">>,
        body       |-> <<"a", " ", "s", "l", "o", "w", " ", "w", "e", "e", "k">>,
        vent_entry |-> Some(FALSE),
        prompt_1   |-> Null,
        p1_answer  |-> Null,
        prompt_2   |-> Null,
        p2_answer  |-> Null ],
      [ entry_date |-> <<"2", "0", "2", "4", "-", "0", "3", "-", "2", "0">>,
        body       |-> <<"e", "v", "e", "r", "y", "t", "h", "i", "n", "g", " ", "a", "t", " ",
                        "o", "n", "c", "e">>,
        vent_entry |-> Some(TRUE),
        prompt_1   |-> Null,
        p1_answer  |-> Null,
        prompt_2   |-> Null,
        p2_answer  |-> Null ]
    >>

REPLY_SPOKE ==
    <<"{", "\"", "s", "h", "o", "u", "l", "d", "S", "p", "e", "a", "k", "\"", ":", "t", "r",
      "u", "e", ",", "\"", "t", "i", "m", "e", "R", "a", "n", "g", "e", "\"", ":", "\"", " ",
      "o", "v", "e", "r", " ", "t", "h", "e", " ", "p", "a", "s", "t", " ", "t", "w", "o", " ",
      "w", "e", "e", "k", "s", " ", "\"", ",", "\"", "r", "e", "f", "l", "e", "c", "t", "i",
      "o", "n", "\"", ":", "\"", " ", "E", "v", "e", "n", "i", "n", "g", "s", " ", "k", "e",
      "e", "p", " ", "f", "e", "e", "l", "i", "n", "g", " ", "h", "e", "a", "v", "y", ".", " ",
      "\"", ",", "\"", "t", "h", "e", "m", "e", "s", "\"", ":", "[", "\"", "t", "i", "r", "e",
      "d", "\"", ",", "\"", " ", "e", "v", "e", "n", "i", "n", "g", "s", " ", "\"", ",", "\"",
      "\"", "]", ",", "\"", "i", "n", "v", "i", "t", "a", "t", "i", "o", "n", "\"", ":", "\"",
      "T", "e", "l", "l", " ", "m", "e", " ", "m", "o", "r", "e", "?", "\"", "}">>

REPLY_BANNED_REFLECTION ==
    <<"{", "\"", "s", "h", "o", "u", "l", "d", "S", "p", "e", "a", "k", "\"", ":", "t", "r",
      "u", "e", ",", "\"", "t", "i", "m", "e", "R", "a", "n", "g", "e", "\"", ":", "n", "u",
      "l", "l", ",", "\"", "r", "e", "f", "l", "e", "c", "t", "i", "o", "n", "\"", ":", "\"",
      "Y", "o", "u", " ", "S", "h", "o", "u", "l", "d", " ", "r", "e", "s", "t", " ", "m", "o",
      "r", "e", ".", "\"", ",", "\"", "t", "h", "e", "m", "e", "s", "\"", ":", "[", "\"", "r",
      "e", "s", "t", "\"", "]", ",", "\"", "i", "n", "v", "i", "t", "a", "t", "i", "o", "n",
      "\"", ":", "n", "u", "l", "l", "}">>

REPLY_BANNED_THEME ==
    <<"{", "\"", "s", "h", "o", "u", "l", "d", "S", "p", "e", "a", "k", "\"", ":", "t", "r",
      "u", "e", ",", "\"", "t", "i", "m", "e", "R", "a", "n", "g", "e", "\"", ":", "n", "u",
      "l", "l", ",", "\"", "r", "e", "f", "l", "e", "c", "t", "i", "o", "n", "\"", ":", "\"",
      "N", "i", "g", "h", "t", "s", " ", "f", "e", "e", "l", " ", "l", "o", "n", "g", ".",
      "\"", ",", "\"", "t", "h", "e", "m", "e", "s", "\"", ":", "[", "\"", "s", "l", "e", "e",
      "p", "\"", ",", "\"", "A", "n", "x", "i", "e", "t", "y", "\"", "]", ",", "\"", "i", "n",
      "v", "i", "t", "a", "t", "i", "o", "n", "\"", ":", "n", "u", "l", "l", "}">>

REPLY_SILENT ==
    <<"{", "\"", "s", "h", "o", "u", "l", "d", "S", "p", "e", "a", "k", "\"", ":", "f", "a",
      "l", "s", "e", ",", "\"", "t", "i", "m", "e", "R", "a", "n", "g", "e", "\"", ":", "n",
      "u", "l", "l", ",", "\"", "r", "e", "f", "l", "e", "c", "t", "i", "o", "n", "\"", ":",
      "n", "u", "l", "l", ",", "\"", "t", "h", "e", "m", "e", "s", "\"", ":", "[", "]", ",",
      "\"", "i", "n", "v", "i", "t", "a", "t", "i", "o", "n", "\"", ":", "\"", "L", "a", "t",
      "e", "r", "?", "\"", "}">>

REPLY_SILENT_BANNED ==
    <<"{", "\"", "s", "h", "o", "u", "l", "d", "S", "p", "e", "a", "k", "\"", ":", "f", "a",
      "l", "s", "e", ",", "\"", "t", "i", "m", "e", "R", "a", "n", "g", "e", "\"", ":", "n",
      "u", "l", "l", ",", "\"", "r", "e", "f", "l", "e", "c", "t", "i", "o", "n", "\"", ":",
      "\"", "A", "t", " ", "l", "e", "a", "s", "t", " ", "i", "t", " ", "p", "a", "s", "s",
      "e", "d", ".", "\"", ",", "\"", "t", "h", "e", "m", "e", "s", "\"", ":", "[", "]", ",",
      "\"", "i", "n", "v", "i", "t", "a", "t", "i", "o", "n", "\"", ":", "n", "u", "l", "l",
      "}">>

REPLY_BLANK ==
    <<"{", "\"", "s", "h", "o", "u", "l", "d", "S", "p", "e", "a", "k", "\"", ":", "t", "r",
      "u", "e", ",", "\"", "t", "i", "m", "e", "R", "a", "n", "g", "e", "\"", ":", "n", "u",
      "l", "l", ",", "\"", "r", "e", "f", "l", "e", "c", "t", "i", "o", "n", "\"", ":", "\"",
      " ", " ", "\"", ",", "\"", "t", "h", "e", "m", "e", "s", "\"", ":", "[", "]", ",", "\"",
      "i", "n", "v", "i", "t", "a", "t", "i", "o", "n", "\"", ":", "n", "u", "l", "l", "}">>

REPLY_TRUNCATED ==
    <<"{", "\"", "s", "h", "o", "u", "l", "d", "S", "p", "e", "a", "k", "\"", ":", "t", "r",
      "u", "e", ",", "\"", "t", "i", "m", "e", "R", "a", "n", "g", "e", "\"", ":", "n", "u",
      "l", "l", ",", "\"", "r", "e", "f", "l", "e", "c", "t", "i", "o", "n", "\"", ":", "\"",
      "E", "v", "e", "n">>

REPLY_WRONG_SHAPE ==
    <<"{", "\"", "s", "h", "o", "u", "l", "d", "S", "p", "e", "a", "k", "\"", ":", "\"", "y",
      "e", "s", "\"", ",", "\"", "r", "e", "f", "l", "e", "c", "t", "i", "o", "n", "\"", ":",
      "n", "u", "l", "l", "}">>

REPLY_FENCED ==
    <<"S", "u", "r", "e", ":", "\n", "U0060", "U0060", "U0060", "j", "s", "o", "n", "\n", "{",
      "\"", "s", "h", "o", "u", "l", "d", "S", "p", "e", "a", "k", "\"", ":", "t", "r", "u",
      "e", ",", "\"", "t", "i", "m", "e", "R", "a", "n", "g", "e", "\"", ":", "n", "u", "l",
      "l", ",", "\"", "r", "e", "f", "l", "e", "c", "t", "i", "o", "n", "\"", ":", "\"", "M",
      "o", "r", "n", "i", "n", "g", "s", " ", "s", "t", "a", "r", "t", " ", "s", "l", "o", "w",
      ".", "\"", ",", "\"", "t", "h", "e", "m", "e", "s", "\"", ":", "[", "]", ",", "\"", "i",
      "n", "v", "i", "t", "a", "t", "i", "o", "n", "\"", ":", "n", "u", "l", "l", "}", "\n",
      "U0060", "U0060", "U0060", "\n", "{", "\"", "n", "o", "t", "e", "\"", ":", "1", "}">>

REPLY_MANY_THEMES ==
    <<"{", "\"", "s", "h", "o", "u", "l", "d", "S", "p", "e", "a", "k", "\"", ":", "t", "r",
      "u", "e", ",", "\"", "t", "i", "m", "e", "R", "a", "n", "g", "e", "\"", ":", "\"", "o",
      "v", "e", "r", " ", "t", "h", "e", " ", "p", "a", "s", "t", " ", "w", "e", "e", "k",
      "\"", ",", "\"", "r", "e", "f", "l", "e", "c", "t", "i", "o", "n", "\"", ":", "\"", "T",
      "i", "r", "e", "d", " ", "m", "o", "s", "t", " ", "e", "v", "e", "n", "i", "n", "g", "s",
      ".", "\"", ",", "\"", "t", "h", "e", "m", "e", "s", "\"", ":", "[", "\"", "t", "i", "r",
      "e", "d", "\"", ",", "\"", " ", "t", "i", "r", "e", "d", " ", "\"", ",", "\"", "s", "l",
      "e", "e", "p", "\"", ",", "\"", "e", "v", "e", "n", "i", "n", "g", "s", "\"", "]", ",",
      "\"", "i", "n", "v", "i", "t", "a", "t", "i", "o", "n", "\"", ":", "n", "u", "l", "l",
      "}">>

REPLY_LOOSE ==
    <<"{", "s", "h", "o", "u", "l", "d", "S", "p", "e", "a", "k", ":", " ", "T", "r", "u", "e",
      ",", " ", "t", "i", "m", "e", "R", "a", "n", "g", "e", ":", " ", "N", "o", "n", "e", ",",
      " ", "r", "e", "f", "l", "e", "c", "t", "i", "o", "n", ":", " ", "'", "D", "a", "y", "s",
      " ", "b", "l", "u", "r", " ", "t", "o", "g", "e", "t", "h", "e", "r", ".", "'", ",", " ",
      "t", "h", "e", "m", "e", "s", ":", " ", "[", "]", ",", " ", "i", "n", "v", "i", "t", "a",
      "t", "i", "o", "n", ":", " ", "N", "o", "n", "e", ",", "}">>

REPLY_SPOKE_CUT ==
    <<"{", "\"", "s", "h", "o", "u", "l", "d", "S", "p", "e", "a", "k", "\"", ":", "t", "r",
      "u", "e", ",", "\"", "t", "i", "m", "e", "R", "a", "n", "g", "e", "\"", ":", "\"", " ",
      "o", "v", "e", "r", " ", "t">>

\* What the provider may do with a generateContentStream call.
ProviderOutcomes ==
    <<
      [ kind |-> "throws", status |-> Some(429),
        message |-> Some("Resource has been exhausted."),
        retryDelay |-> Some(<<"1", "7", "s">>) ],
      [ kind |-> "throws", status |-> Some(500), message |-> Some("Internal error."),
        retryDelay |-> Null ],
      [ kind |-> "throws", status |-> Null, message |-> Null,
        retryDelay |-> Some(<<"s", "o", "o", "n">>) ],
      [ kind |-> "streams", streamedText |-> REPLY_SPOKE, parts |-> Some(<<REPLY_SPOKE>>),
        responseText |-> REPLY_SPOKE, finishReason |-> Some("STOP") ],
      [ kind |-> "streams", streamedText |-> REPLY_SPOKE, parts |-> Some(<<REPLY_SPOKE_CUT>>),
        responseText |-> REPLY_SPOKE_CUT, finishReason |-> Some("STOP") ],
      [ kind |-> "streams", streamedText |-> REPLY_BANNED_REFLECTION,
        parts |-> Some(<<REPLY_BANNED_REFLECTION>>),
        responseText |-> REPLY_BANNED_REFLECTION, finishReason |-> Some("STOP") ],
      [ kind |-> "streams", streamedText |-> REPLY_BANNED_THEME,
        parts |-> Some(<<REPLY_BANNED_THEME>>),
        responseText |-> REPLY_BANNED_THEME, finishReason |-> Some("STOP") ],
      [ kind |-> "streams", streamedText |-> REPLY_SILENT, parts |-> Some(<<REPLY_SILENT>>),
        responseText |-> REPLY_SILENT, finishReason |-> Some("STOP") ],
      [ kind |-> "streams", streamedText |-> REPLY_SILENT_BANNED,
        parts |-> Some(<<REPLY_SILENT_BANNED>>),
        responseText |-> REPLY_SILENT_BANNED, finishReason |-> Some("STOP") ],
      [ kind |-> "streams", streamedText |-> REPLY_BLANK, parts |-> Some(<<REPLY_BLANK>>),
        responseText |-> REPLY_BLANK, finishReason |-> Some("STOP") ],
      [ kind |-> "streams", streamedText |-> REPLY_TRUNCATED, parts |-> Null,
        responseText |-> REPLY_TRUNCATED, finishReason |-> Some("MAX_TOKENS") ],
      [ kind |-> "streams", streamedText |-> REPLY_WRONG_SHAPE,
        parts |-> Some(<<REPLY_WRONG_SHAPE>>),
        responseText |-> REPLY_WRONG_SHAPE, finishReason |-> Some("STOP") ],
      [ kind |-> "streams", streamedText |-> REPLY_FENCED, parts |-> Some(<<REPLY_FENCED>>),
        responseText |-> REPLY_FENCED, finishReason |-> Null ],
      [ kind |-> "streams", streamedText |-> REPLY_LOOSE, parts |-> Some(<<REPLY_LOOSE>>),
        responseText |-> REPLY_LOOSE, finishReason |-> Some("STOP") ],
      [ kind |-> "streams", streamedText |-> REPLY_MANY_THEMES,
        parts |-> Some(<<REPLY_MANY_THEMES>>),
        responseText |-> REPLY_MANY_THEMES, finishReason |-> Some("STOP") ]
    >>

\* The outcomes the route's specification draws from: a rate limit, a clean
\* reflection, a banned reflection and a banned theme.
RouteOutcomes == {1, 4, 6, 7}

GEMINI_MODEL_SET ==
    <<" ", "g", "e", "m", "i", "n", "i", "-", "2", ".", "0", "-", "f", "l", "a", "s", "h", " ">>

LISTED_FLASH_LITE ==
    <<"m", "o", "d", "e", "l", "s", "/", "g", "e", "m", "i", "n", "i", "-", "2", ".", "5", "-",
      "f", "l", "a", "s", "h", "-", "l", "i", "t", "e", "-", "0", "0", "1">>

LISTED_FLASH ==
    <<"m", "o", "d", "e", "l", "s", "/", "g", "e", "m", "i", "n", "i", "-", "2", ".", "0", "-",
      "f", "l", "a", "s", "h", "-", "0", "0", "1">>

LISTED_EMBEDDING ==
    <<"m", "o", "d", "e", "l", "s", "/", "e", "m", "b", "e", "d", "d", "i", "n", "g", "-", "0",
      "0", "1">>

LISTED_TUNED ==
    <<"m", "o", "d", "e", "l", "s", "/", "t", "u", "n", "e", "d", "-", "j", "o", "u", "r", "n",
      "a", "l">>

\* What the fetch of the model list may return.
ListResponses ==
    <<
      [kind |-> "throws"],
      [kind |-> "notOk"],
      [kind |-> "ok", models |-> <<>>],
      [ kind   |-> "ok",
        models |-> << [name |-> Some(LISTED_EMBEDDING), generateContent |-> FALSE],
                      [name |-> Some(LISTED_FLASH_LITE), generateContent |-> TRUE],
                      [name |-> Some(LISTED_FLASH), generateContent |-> TRUE] >> ],
      [ kind   |-> "ok",
        models |-> << [name |-> Some(LISTED_EMBEDDING), generateContent |-> FALSE],
                      [name |-> Some(LISTED_TUNED), generateContent |-> TRUE] >> ]
    >>

RouteListResponses == {4}

\* serverEnv: with a configured model, with a key only, with neither.
EnvConfigs ==
    { [GEMINI_API_KEY |-> TRUE, GEMINI_MODEL |-> Some(GEMINI_MODEL_SET)],
      [GEMINI_API_KEY |-> TRUE, GEMINI_MODEL |-> Null],
      [GEMINI_API_KEY |-> FALSE, GEMINI_MODEL |-> Null] }

Users == {"ana"}

\* The rows of JournalRows with an index in S, newest first (the order of
\* the route's query) and oldest first.
RECURSIVE rowsNewestFirst(_, _)
rowsNewestFirst(S, i) ==
    IF i = 0 THEN <<>>
    ELSE (IF i \in S THEN <<JournalRows[i]>> ELSE <<>>) \o rowsNewestFirst(S, i - 1)

\* The journals a user of the route's specification moves between: two
\* non-vent entries; six entries over six days; one more, a week later.
Snapshots ==
    << rowsNewestFirst({1, 2, 3}, Len(JournalRows)),
       rowsNewestFirst({1, 2, 3, 4, 5, 6}, Len(JournalRows)),
       rowsNewestFirst({1, 2, 3, 4, 5, 6, 7}, Len(JournalRows)) >>

\* Requests that may be awaiting generateJournalPatterns at once.
MaxInFlight == 2

\* GET requests, journal edits and clock steps of a behaviour.
MaxRequests == 2

MaxEdits == 1

MaxTicks == 1

\* The clock advances by the cache's time to live or by one millisecond
\* more: a slot is seen at the ages 0, CACHE_TTL_MS and beyond.
TickSteps == {CACHE_TTL_MS, CACHE_TTL_MS + 1}

MaxNow == MaxTicks * (CACHE_TTL_MS + 1)

---------------------------------------------------------------------------
(* An invocation of generateJournalPatterns, cut at its awaits.  pc is     *)
(* "init" (not entered), "listing" (awaiting the fetch of                  *)
(* resolveModelName), "generating" (awaiting the provider in runOnce),     *)
(* "returned", or "skipped" (the route answered without calling it).       *)

newCall(entriesAll, debug) ==
    [ pc            |-> "init",
      entriesAll    |-> entriesAll,
      debug         |-> debug,
      modelName     |-> Null,
      listCalls     |-> 0,
      providerCalls |-> 0,
      outcome       |-> Null,
      result        |-> Null ]

\* Lines 498-536: past the gate, up to the first await that leaves the
\* process; name is what resolveModelName has without a fetch, if anything.
callResolve(c, name) ==
    IF ~IsNull(name)
    THEN [c EXCEPT !.pc = "generating", !.modelName = name, !.providerCalls = @ + 1]
    ELSE [c EXCEPT !.pc = "listing", !.listCalls = @ + 1]

\* Lines 470-496 for the result early of the gate and the configuration
\* check.
callGate(c, early, e, cached) ==
    IF ~IsNull(early) THEN [c EXCEPT !.pc = "returned", !.result = early]
    ELSE callResolve(c, resolveModelNameCached(e, cached))

\* Lines 465-536: from the call to the first await that leaves the process.
callEnter(c, e, cached) ==
    callGate(c, gateResult(sortByEntryDate(c.entriesAll), c.debug, e), e, cached)

\* The fetch of resolveModelName has settled with res: runOnce starts.
callListed(c, res) ==
    [c EXCEPT !.pc = "generating",
              !.modelName = Some(resolveModelNameFetched(res)),
              !.providerCalls = @ + 1]

\* A variant of callAttempted that calls the provider once more after a
\* call that threw, which C14 must tell from it.
callAttemptedRetrying(c, k) ==
    IF ProviderOutcomes[k].kind = "throws" /\ c.providerCalls < 2
    THEN [c EXCEPT !.providerCalls = @ + 1]
    ELSE [c EXCEPT !.pc = "returned",
                   !.outcome = Some(k),
                   !.result = Some(attemptResult(sortByEntryDate(c.entriesAll), c.debug,
                                                 runOnce(c.modelName[1], ProviderOutcomes[k])))]

\* The provider has settled with ProviderOutcomes[k]: lines 599-811.
callAttempted(c, k) ==
    [c EXCEPT !.pc = "returned",
              !.outcome = Some(k),
              !.result = Some(attemptResult(sortByEntryDate(c.entriesAll), c.debug,
                                            runOnce(c.modelName[1], ProviderOutcomes[k])))]

NoCall == [pc |-> "none"]

---------------------------------------------------------------------------
(* The GET handler, cut at the await of generateJournalPatterns.           *)

Idle == [pc |-> "idle"]

NoResponse == [served |-> "none"]

Slots == 1..MaxInFlight

freeSlot == CHOOSE i \in Slots : inflight[i] = Idle /\ \A j \in Slots : j < i => inflight[j] # Idle

\* How the request found the user's slot when it arrived: "empty",
\* "expired" (older than CACHE_TTL_MS), "changed" (recent, of another
\* fingerprint) or "hit" (line 135 holds).
arrivalOf(cached, fingerprint, nowMs) ==
    IF IsNull(cached) THEN "empty"
    ELSE IF ~isRecent(cached, nowMs) THEN "expired"
    ELSE IF cached[1].fingerprint # fingerprint THEN "changed"
    ELSE "hit"

\* What is recorded of a response: the request, how it found the slot when
\* it arrived, the slot and its writer when it answered, the response, and
\* what its invocation of generateJournalPatterns did.
responded(req, c, served, response, slotBefore) ==
    [ served        |-> served,
      user          |-> req.user,
      refresh       |-> req.refresh,
      debug         |-> req.debug,
      snapshot      |-> req.snapshot,
      fingerprint   |-> req.fingerprint,
      arrival       |-> req.arrival,
      slotBefore    |-> slotBefore,
      writerBefore  |-> slotWriter[req.user],
      response      |-> response,
      pc            |-> c.pc,
      listCalls     |-> c.listCalls,
      providerCalls |-> c.providerCalls,
      outcome       |-> c.outcome ]

\* A variant of Answer that keeps one slot for all users, which C27 must
\* tell from it.
AnswerSharedSlot(req, c, r) ==
    /\ patternsCacheByUser' = [u \in DOMAIN patternsCacheByUser |-> r.slot]
    /\ slotWriter' =
          IF r.served = "fresh"
          THEN [slotWriter EXCEPT ![req.user] =
                    Some([ body          |-> r.response.body,
                           debug         |-> req.debug,
                           snapshot      |-> req.snapshot,
                           providerCalls |-> c.providerCalls,
                           outcome       |-> c.outcome ])]
          ELSE slotWriter
    /\ last' = responded(req, c, r.served, r.response, patternsCacheByUser[req.user])

\* Lines 166-206 with r, what routeAfterPatterns made of the result of
\* invocation c.
Answer(req, c, r) ==
    /\ patternsCacheByUser' = [patternsCacheByUser EXCEPT ![req.user] = r.slot]
    /\ slotWriter' =
          IF r.served = "fresh"
          THEN [slotWriter EXCEPT ![req.user] =
                    Some([ body          |-> r.response.body,
                           debug         |-> req.debug,
                           snapshot      |-> req.snapshot,
                           providerCalls |-> c.providerCalls,
                           outcome       |-> c.outcome ])]
          ELSE slotWriter
    /\ last' = responded(req, c, r.served, r.response, patternsCacheByUser[req.user])

\* A variant of Respond that stores the fingerprint of the journal as it is
\* when the run returns, which C28 must tell from it.
RespondCurrentFingerprint(req, c) ==
    Answer(req, c, routeAfterPatterns(c.result[1], patternsCacheByUser[req.user], req.debug,
                                      slice(Snapshots[req.snapshot], 0, MAX),
                                      computeEntriesFingerprint(
                                          slice(Snapshots[db[req.user]], 0, MAX)), now))

\* Lines 166-206 for request req whose invocation c has returned.
Respond(req, c) ==
    Answer(req, c, routeAfterPatterns(c.result[1], patternsCacheByUser[req.user], req.debug,
                                      slice(Snapshots[req.snapshot], 0, MAX),
                                      req.fingerprint, now))

\* Lines 153-206 for request req, c being its invocation of
\* generateJournalPatterns at the first await (or at its return).
Generate(req, c) ==
    IF c.pc = "returned"
    THEN /\ Respond(req, c)
         /\ UNCHANGED inflight
    ELSE /\ inflight' = [inflight EXCEPT ![freeSlot] = [req |-> req, call |-> c]]
         /\ last' = NoResponse
         /\ UNCHANGED <<patternsCacheByUser, slotWriter>>

\* A variant of Serve that takes the fast path with refresh=1 too, which C8
\* must tell from it.
ServeIgnoringRefresh(req, rows) ==
    IF isFastPathHit(patternsCacheByUser[req.user], req.fingerprint, now)
    THEN /\ last' = responded(req, [newCall(<<>>, req.debug) EXCEPT !.pc = "skipped"], "fast",
                              fastPathResponse(patternsCacheByUser[req.user], req.debug, rows,
                                               req.fingerprint, now),
                              patternsCacheByUser[req.user])
         /\ UNCHANGED <<patternsCacheByUser, slotWriter, inflight>>
    ELSE Generate(req, callEnter(newCall(entriesAllOf(rows), req.debug), env, cachedModelName))

\* Lines 131-165 for request req and the rows of its query.
Serve(req, rows) ==
    IF ~req.refresh /\ isFastPathHit(patternsCacheByUser[req.user], req.fingerprint, now)
    THEN /\ last' = responded(req, [newCall(<<>>, req.debug) EXCEPT !.pc = "skipped"], "fast",
                              fastPathResponse(patternsCacheByUser[req.user], req.debug, rows,
                                               req.fingerprint, now),
                              patternsCacheByUser[req.user])
         /\ UNCHANGED <<patternsCacheByUser, slotWriter, inflight>>
    ELSE Generate(req, callEnter(newCall(entriesAllOf(rows), req.debug), env, cachedModelName))

\* Lines 125-129 for the rows of the query and their fingerprint.
Query(u, refresh, debug, rows, fingerprint) ==
    Serve([ user        |-> u,
            refresh     |-> refresh,
            debug       |-> debug,
            snapshot    |-> db[u],
            fingerprint |-> fingerprint,
            arrival     |-> arrivalOf(patternsCacheByUser[u], fingerprint, now) ], rows)

\* GET with a valid token of user u: lines 92-165.
Get(u, refresh, debug) ==
    /\ requests < MaxRequests
    /\ \E i \in Slots : inflight[i] = Idle
    /\ requests' = requests + 1
    /\ Query(u, refresh, debug, slice(Snapshots[db[u]], 0, MAX),
             computeEntriesFingerprint(slice(Snapshots[db[u]], 0, MAX)))
    /\ UNCHANGED <<env, cachedModelName, db, now, edits, call>>

\* GET that ends before the cache is read: no token (401), a token the auth
\* service rejects (401), no user (401), or a failed query (500).
GetRejected(why) ==
    /\ requests < MaxRequests
    /\ requests' = requests + 1
    /\ last' = [ served   |-> "rejected",
                 response |-> CASE why = "token"   -> jsonError("Missing auth token.", 401)
                                [] why = "invalid" -> jsonError("Invalid auth token.", 401)
                                [] why = "nouser"  -> jsonError("Not signed in.", 401)
                                [] OTHER           -> jsonError("query failed", 500) ]
    /\ UNCHANGED <<env, cachedModelName, db, patternsCacheByUser, slotWriter, now, inflight,
                   edits, call>>

\* The fetch of resolveModelName settles for the request in slot i.
ModelsListed(i, k) ==
    /\ inflight[i] # Idle
    /\ inflight[i].call.pc = "listing"
    /\ cachedModelName' = Some(resolveModelNameFetched(ListResponses[k]))
    /\ inflight' = [inflight EXCEPT ![i].call = callListed(@, ListResponses[k])]
    /\ last' = NoResponse
    /\ UNCHANGED <<env, db, patternsCacheByUser, slotWriter, now, requests, edits, call>>

\* A variant of ProviderSettled that gives up a request whose provider call
\* threw, without a response, which C30 must tell from it.
ProviderSettledDropping(i, k) ==
    /\ inflight[i] # Idle
    /\ inflight[i].call.pc = "generating"
    /\ IF ProviderOutcomes[k].kind = "throws"
       THEN /\ last' = NoResponse
            /\ UNCHANGED <<patternsCacheByUser, slotWriter>>
       ELSE Respond(inflight[i].req, callAttempted(inflight[i].call, k))
    /\ inflight' = [inflight EXCEPT ![i] = Idle]
    /\ UNCHANGED <<env, cachedModelName, db, now, requests, edits, call>>

\* The provider settles for the request in slot i, and the route answers.
ProviderSettled(i, k) ==
    /\ inflight[i] # Idle
    /\ inflight[i].call.pc = "generating"
    /\ Respond(inflight[i].req, callAttempted(inflight[i].call, k))
    /\ inflight' = [inflight EXCEPT ![i] = Idle]
    /\ UNCHANGED <<env, cachedModelName, db, now, requests, edits, call>>

\* Time passes.
Tick(d) ==
    /\ now + d <= MaxNow
    /\ now' = now + d
    /\ last' = NoResponse
    /\ UNCHANGED <<env, cachedModelName, db, patternsCacheByUser, slotWriter, inflight,
                   requests, edits, call>>

\* The user adds an entry to the journal (createJournalEntry).
EditJournal(u) ==
    /\ edits < MaxEdits
    /\ db[u] < Len(Snapshots)
    /\ db' = [db EXCEPT ![u] = @ + 1]
    /\ edits' = edits + 1
    /\ last' = NoResponse
    /\ UNCHANGED <<env, cachedModelName, patternsCacheByUser, slotWriter, now, inflight,
                   requests, call>>

Init ==
    /\ env \in EnvConfigs
    /\ cachedModelName = Null
    /\ db \in [Users -> {1, 2}]
    /\ patternsCacheByUser = [u \in Users |-> Null]
    /\ slotWriter = [u \in Users |-> Null]
    /\ now = 0
    /\ inflight = [i \in Slots |-> Idle]
    /\ requests = 0
    /\ edits = 0
    /\ last = NoResponse
    /\ call = NoCall

Next ==
    \/ \E u \in Users, refresh \in BOOLEAN, debug \in BOOLEAN : Get(u, refresh, debug)
    \/ \E why \in {"token", "invalid", "nouser", "query"} : GetRejected(why)
    \/ \E i \in Slots, k \in RouteListResponses : ModelsListed(i, k)
    \/ \E i \in Slots, k \in RouteOutcomes : ProviderSettled(i, k)
    \/ \E d \in TickSteps : Tick(d)
    \/ \E u \in Users : EditJournal(u)

Spec == Init /\ [][Next]_vars

---------------------------------------------------------------------------
(* generateJournalPatterns on its own, over the bounded journals.          *)

RECURSIVE rowsOldestFirst(_, _)
rowsOldestFirst(S, i) ==
    IF i > Len(JournalRows) THEN <<>>
    ELSE (IF i \in S THEN <<JournalRows[i]>> ELSE <<>>) \o rowsOldestFirst(S, i + 1)

entriesOf(rows) == [i \in 1..Len(rows) |-> rowToEntry(rows[i])]

\* The entry lists the function is given: every subset of the rows, oldest
\* first or newest first.
InputEntries ==
    { entriesOf(rowsOldestFirst(S, 1)) : S \in SUBSET (1..Len(JournalRows)) }
    \cup { entriesOf(rowsNewestFirst(S, Len(JournalRows))) : S \in SUBSET (1..Len(JournalRows)) }

InitPatterns ==
    /\ env \in EnvConfigs
    /\ cachedModelName = Null
    /\ db = [u \in Users |-> 1]
    /\ patternsCacheByUser = [u \in Users |-> Null]
    /\ slotWriter = [u \in Users |-> Null]
    /\ now = 0
    /\ inflight = [i \in Slots |-> Idle]
    /\ requests = 0
    /\ edits = 0
    /\ last = NoResponse
    /\ call \in {newCall(entriesAll, debug) : entriesAll \in InputEntries, debug \in BOOLEAN}

PatternsEnter ==
    /\ call.pc = "init"
    /\ call' = callEnter(call, env, cachedModelName)
    /\ UNCHANGED <<env, cachedModelName, db, patternsCacheByUser, slotWriter, now, inflight,
                   requests, edits, last>>

PatternsListed(k) ==
    /\ call.pc = "listing"
    /\ call' = callListed(call, ListResponses[k])
    /\ cachedModelName' = Some(resolveModelNameFetched(ListResponses[k]))
    /\ UNCHANGED <<env, db, patternsCacheByUser, slotWriter, now, inflight, requests, edits, last>>

PatternsAttempted(k) ==
    /\ call.pc = "generating"
    /\ call' = callAttempted(call, k)
    /\ UNCHANGED <<env, cachedModelName, db, patternsCacheByUser, slotWriter, now, inflight,
                   requests, edits, last>>

NextPatterns ==
    \/ PatternsEnter
    \/ \E k \in 1..Len(ListResponses) : PatternsListed(k)
    \/ \E k \in 1..Len(ProviderOutcomes) : PatternsAttempted(k)

SpecPatterns == InitPatterns /\ [][NextPatterns]_vars

---------------------------------------------------------------------------
(* The reply texts given to the parser.  A text is a prose prefix, an      *)
(* opening fence, the objects inside, a closing fence and the objects that *)
(* trail it.  ParserObjects lists the objects: the text, the value of the   *)
(* text as JSON (null when it is not JSON even after the repairs) and      *)
(* whether the value has the five members of the expected shape.           *)

ParserObjects ==
    <<
      [ text  |-> <<"{", "\"", "s", "h", "o", "u", "l", "d", "S", "p", "e", "a", "k", "\"",
                    ":", "t", "r", "u", "e", ",", "\"", "t", "i", "m", "e", "R", "a", "n", "g",
                    "e", "\"", ":", "n", "u", "l", "l", ",", "\"", "r", "e", "f", "l", "e",
                    "c", "t", "i", "o", "n", "\"", ":", "\"", "F", "i", "r", "s", "t", ".",
                    "\"", ",", "\"", "t", "h", "e", "m", "e", "s", "\"", ":", "[", "]", ",",
                    "\"", "i", "n", "v", "i", "t", "a", "t", "i", "o", "n", "\"", ":", "n",
                    "u", "l", "l", "}">>,
        value |-> Some(JObj(<<[k |-> <<"s", "h", "o", "u", "l", "d", "S", "p", "e", "a", "k">>, v |-> JBool(TRUE)],
                               [k |-> <<"t", "i", "m", "e", "R", "a", "n", "g", "e">>, v |-> JNull],
                               [k |-> <<"r", "e", "f", "l", "e", "c", "t", "i", "o", "n">>, v |-> JStr(<<"F", "i", "r", "s", "t", ".">>)],
                               [k |-> <<"t", "h", "e", "m", "e", "s">>, v |-> JArr(<<>>)],
                               [k |-> <<"i", "n", "v", "i", "t", "a", "t", "i", "o", "n">>, v |-> JNull]>>)),
        shape |-> TRUE ],
      [ text  |-> <<"{", "\"", "s", "h", "o", "u", "l", "d", "S", "p", "e", "a", "k", "\"",
                    ":", "t", "r", "u", "e", ",", "\"", "t", "i", "m", "e", "R", "a", "n", "g",
                    "e", "\"", ":", "\"", "o", "v", "e", "r", " ", "t", "h", "e", " ", "p",
                    "a", "s", "t", " ", "w", "e", "e", "k", "\"", ",", "\"", "r", "e", "f",
                    "l", "e", "c", "t", "i", "o", "n", "\"", ":", "\"", "S", "e", "c", "o",
                    "n", "d", ".", "\"", ",", "\"", "t", "h", "e", "m", "e", "s", "\"", ":",
                    "[", "\"", "r", "e", "s", "t", "\"", "]", ",", "\"", "i", "n", "v", "i",
                    "t", "a", "t", "i", "o", "n", "\"", ":", "n", "u", "l", "l", "}">>,
        value |-> Some(JObj(<<[k |-> <<"s", "h", "o", "u", "l", "d", "S", "p", "e", "a", "k">>, v |-> JBool(TRUE)],
                               [k |-> <<"t", "i", "m", "e", "R", "a", "n", "g", "e">>, v |-> JStr(<<"o", "v", "e", "r", " ", "t", "h", "e", " ", "p", "a", "s",
                                    "t", " ", "w", "e", "e", "k">>)],
                               [k |-> <<"r", "e", "f", "l", "e", "c", "t", "i", "o", "n">>, v |-> JStr(<<"S", "e", "c", "o", "n", "d", ".">>)],
                               [k |-> <<"t", "h", "e", "m", "e", "s">>, v |-> JArr(<<JStr(<<"r", "e", "s", "t">>)>>)],
                               [k |-> <<"i", "n", "v", "i", "t", "a", "t", "i", "o", "n">>, v |-> JNull]>>)),
        shape |-> TRUE ],
      [ text  |-> <<"{", "\"", "n", "o", "t", "e", "\"", ":", "1", "}">>,
        value |-> Some(JObj(<<[k |-> <<"n", "o", "t", "e">>, v |-> JNum(<<"1">>)]>>)),
        shape |-> FALSE ],
      [ text  |-> <<"{", "s", "h", "o", "u", "l", "d", "S", "p", "e", "a", "k", ":", " ", "F",
                    "a", "l", "s", "e", ",", " ", "t", "i", "m", "e", "R", "a", "n", "g", "e",
                    ":", " ", "N", "o", "n", "e", ",", " ", "r", "e", "f", "l", "e", "c", "t",
                    "i", "o", "n", ":", " ", "N", "o", "n", "e", ",", " ", "t", "h", "e", "m",
                    "e", "s", ":", " ", "[", "]", ",", " ", "i", "n", "v", "i", "t", "a", "t",
                    "i", "o", "n", ":", " ", "N", "o", "n", "e", ",", "}">>,
        value |-> Some(JObj(<<[k |-> <<"s", "h", "o", "u", "l", "d", "S", "p", "e", "a", "k">>, v |-> JBool(FALSE)],
                               [k |-> <<"t", "i", "m", "e", "R", "a", "n", "g", "e">>, v |-> JNull],
                               [k |-> <<"r", "e", "f", "l", "e", "c", "t", "i", "o", "n">>, v |-> JNull],
                               [k |-> <<"t", "h", "e", "m", "e", "s">>, v |-> JArr(<<>>)],
                               [k |-> <<"i", "n", "v", "i", "t", "a", "t", "i", "o", "n">>, v |-> JNull]>>)),
        shape |-> TRUE ],
      [ text  |-> <<"{", "\"", "s", "h", "o", "u", "l", "d", "S", "p", "e", "a", "k", "\"",
                    ":", "\"", "y", "e", "s", "\"", ",", "\"", "r", "e", "f", "l", "e", "c",
                    "t", "i", "o", "n", "\"", ":", "n", "u", "l", "l", "}">>,
        value |-> Some(JObj(<<[k |-> <<"s", "h", "o", "u", "l", "d", "S", "p", "e", "a", "k">>, v |-> JStr(<<"y", "e", "s">>)],
                               [k |-> <<"r", "e", "f", "l", "e", "c", "t", "i", "o", "n">>, v |-> JNull]>>)),
        shape |-> FALSE ],
      [ text  |-> <<"{", "o", "o", "p", "s", "}">>,
        value |-> Null,
        shape |-> FALSE ],
      [ text  |-> <<"{", "l", "a", "b", "e", "l", ":", " ", "'", "x", "'", ",", " ", "s", "c",
                    "o", "r", "e", ":", " ", "1", ",", "}">>,
        value |-> Some(JObj(<<[k |-> <<"l", "a", "b", "e", "l">>, v |-> JStr(<<"x">>)],
                               [k |-> <<"s", "c", "o", "r", "e">>, v |-> JNum(<<"1">>)]>>)),
        shape |-> FALSE ],
      [ text  |-> <<"{", "\"", "n", "o", "t", "e", "\"", ":", "\"", "a", " ", "}", " ", "b",
                    "\"", "}">>,
        value |-> Some(JObj(<<[k |-> <<"n", "o", "t", "e">>, v |-> JStr(<<"a", " ", "}", " ", "b">>)]>>)),
        shape |-> FALSE ],
      [ text  |-> <<"{", "\"", "s", "h", "o", "u", "l", "d", "S", "p", "e", "a", "k", "\"",
                    ":", "t", "r", "u", "e", ",", "\"", "t", "i", "m", "e", "R", "a", "n", "g",
                    "e", "\"", ":", "\"", "o", "v", "e", "r", " ", "t", "h", "e", " ", "p",
                    "a", "s", "t", " ", "w", "e", "e", "k", "\"", ",", "\"", "r", "e", "f",
                    "l", "e", "c", "t", "i", "o", "n", "\"", ":", "\"", "S", "t", "i", "l",
                    "l", " ", "t", "i", "r", "e", "d", ".", "\"", ",", "\"", "t", "h", "e",
                    "m", "e", "s", "\"", ":", "[", "\"", "r", "e", "s", "t", "\"", "]", ",",
                    "\"", "i", "n", "v", "i", "t", "a", "t", "i", "o", "n", "\"", ":", "n",
                    "u", "l", "l", "}">>,
        value |-> Some(JObj(<<[k |-> <<"s", "h", "o", "u", "l", "d", "S", "p", "e", "a", "k">>, v |-> JBool(TRUE)],
                               [k |-> <<"t", "i", "m", "e", "R", "a", "n", "g", "e">>, v |-> JStr(<<"o", "v", "e", "r", " ", "t", "h", "e", " ", "p", "a", "s",
                                    "t", " ", "w", "e", "e", "k">>)],
                               [k |-> <<"r", "e", "f", "l", "e", "c", "t", "i", "o", "n">>, v |-> JStr(<<"S", "t", "i", "l", "l", " ", "t", "i", "r", "e", "d", ".">>)],
                               [k |-> <<"t", "h", "e", "m", "e", "s">>, v |-> JArr(<<JStr(<<"r", "e", "s", "t">>)>>)],
                               [k |-> <<"i", "n", "v", "i", "t", "a", "t", "i", "o", "n">>, v |-> JNull]>>)),
        shape |-> TRUE ],
      [ text  |-> <<"{", "\"", "s", "h", "o", "u", "l", "d", "S", "p", "e", "a", "k", "\"",
                    ":", "t", "r", "u", "e", ",", "\"", "t", "i", "m", "e", "R", "a", "n", "g",
                    "e", "\"", ":", "\"", "o", "v", "e", "r", " ", "t", "h", "e", " ", "p",
                    "a", "s", "t", " ", "w", "e", "e", "k", "\"", ",", "\"", "r", "e", "f",
                    "l", "e", "c", "t", "i", "o", "n", "\"", ":", "\"", "S", "t", "i", "l",
                    "l", " ", "t", "i", "r", "e", "d", ".", "\"", ",", "\"", "t", "h", "e",
                    "m", "e", "s", "\"", ":", "[", "\"", "r", "e", "s", "t", "\"", "]", ",",
                    "\"", "i", "n", "v", "i", "t", "a", "t", "i", "o", "n", "\"", ":", "n",
                    "u", "l", "l", ",", "\"", "m", "o", "o", "d", "\"", ":", "\"", "l", "o",
                    "w", "\"", "}">>,
        value |-> Some(JObj(<<[k |-> <<"s", "h", "o", "u", "l", "d", "S", "p", "e", "a", "k">>, v |-> JBool(TRUE)],
                               [k |-> <<"t", "i", "m", "e", "R", "a", "n", "g", "e">>, v |-> JStr(<<"o", "v", "e", "r", " ", "t", "h", "e", " ", "p", "a", "s",
                                    "t", " ", "w", "e", "e", "k">>)],
                               [k |-> <<"r", "e", "f", "l", "e", "c", "t", "i", "o", "n">>, v |-> JStr(<<"S", "t", "i", "l", "l", " ", "t", "i", "r", "e", "d", ".">>)],
                               [k |-> <<"t", "h", "e", "m", "e", "s">>, v |-> JArr(<<JStr(<<"r", "e", "s", "t">>)>>)],
                               [k |-> <<"i", "n", "v", "i", "t", "a", "t", "i", "o", "n">>, v |-> JNull],
                               [k |-> <<"m", "o", "o", "d">>, v |-> JStr(<<"l", "o", "w">>)]>>)),
        shape |-> TRUE ],
      [ text  |-> <<"{", "\"", "t", "i", "m", "e", "R", "a", "n", "g", "e", "\"", ":", "\"",
                    "o", "v", "e", "r", " ", "t", "h", "e", " ", "p", "a", "s", "t", " ", "w",
                    "e", "e", "k", "\"", ",", "\"", "r", "e", "f", "l", "e", "c", "t", "i",
                    "o", "n", "\"", ":", "\"", "S", "t", "i", "l", "l", " ", "t", "i", "r",
                    "e", "d", ".", "\"", ",", "\"", "t", "h", "e", "m", "e", "s", "\"", ":",
                    "[", "\"", "r", "e", "s", "t", "\"", "]", ",", "\"", "i", "n", "v", "i",
                    "t", "a", "t", "i", "o", "n", "\"", ":", "n", "u", "l", "l", "}">>,
        value |-> Some(JObj(<<[k |-> <<"t", "i", "m", "e", "R", "a", "n", "g", "e">>, v |-> JStr(<<"o", "v", "e", "r", " ", "t", "h", "e", " ", "p", "a", "s",
                                    "t", " ", "w", "e", "e", "k">>)],
                               [k |-> <<"r", "e", "f", "l", "e", "c", "t", "i", "o", "n">>, v |-> JStr(<<"S", "t", "i", "l", "l", " ", "t", "i", "r", "e", "d", ".">>)],
                               [k |-> <<"t", "h", "e", "m", "e", "s">>, v |-> JArr(<<JStr(<<"r", "e", "s", "t">>)>>)],
                               [k |-> <<"i", "n", "v", "i", "t", "a", "t", "i", "o", "n">>, v |-> JNull]>>)),
        shape |-> FALSE ],
      [ text  |-> <<"{", "\"", "s", "h", "o", "u", "l", "d", "S", "p", "e", "a", "k", "\"",
                    ":", "t", "r", "u", "e", ",", "\"", "r", "e", "f", "l", "e", "c", "t", "i",
                    "o", "n", "\"", ":", "\"", "S", "t", "i", "l", "l", " ", "t", "i", "r",
                    "e", "d", ".", "\"", ",", "\"", "t", "h", "e", "m", "e", "s", "\"", ":",
                    "[", "\"", "r", "e", "s", "t", "\"", "]", ",", "\"", "i", "n", "v", "i",
                    "t", "a", "t", "i", "o", "n", "\"", ":", "n", "u", "l", "l", "}">>,
        value |-> Some(JObj(<<[k |-> <<"s", "h", "o", "u", "l", "d", "S", "p", "e", "a", "k">>, v |-> JBool(TRUE)],
                               [k |-> <<"r", "e", "f", "l", "e", "c", "t", "i", "o", "n">>, v |-> JStr(<<"S", "t", "i", "l", "l", " ", "t", "i", "r", "e", "d", ".">>)],
                               [k |-> <<"t", "h", "e", "m", "e", "s">>, v |-> JArr(<<JStr(<<"r", "e", "s", "t">>)>>)],
                               [k |-> <<"i", "n", "v", "i", "t", "a", "t", "i", "o", "n">>, v |-> JNull]>>)),
        shape |-> FALSE ],
      [ text  |-> <<"{", "\"", "s", "h", "o", "u", "l", "d", "S", "p", "e", "a", "k", "\"",
                    ":", "t", "r", "u", "e", ",", "\"", "t", "i", "m", "e", "R", "a", "n", "g",
                    "e", "\"", ":", "\"", "o", "v", "e", "r", " ", "t", "h", "e", " ", "p",
                    "a", "s", "t", " ", "w", "e", "e", "k", "\"", ",", "\"", "t", "h", "e",
                    "m", "e", "s", "\"", ":", "[", "\"", "r", "e", "s", "t", "\"", "]", ",",
                    "\"", "i", "n", "v", "i", "t", "a", "t", "i", "o", "n", "\"", ":", "n",
                    "u", "l", "l", "}">>,
        value |-> Some(JObj(<<[k |-> <<"s", "h", "o", "u", "l", "d", "S", "p", "e", "a", "k">>, v |-> JBool(TRUE)],
                               [k |-> <<"t", "i", "m", "e", "R", "a", "n", "g", "e">>, v |-> JStr(<<"o", "v", "e", "r", " ", "t", "h", "e", " ", "p", "a", "s",
                                    "t", " ", "w", "e", "e", "k">>)],
                               [k |-> <<"t", "h", "e", "m", "e", "s">>, v |-> JArr(<<JStr(<<"r", "e", "s", "t">>)>>)],
                               [k |-> <<"i", "n", "v", "i", "t", "a", "t", "i", "o", "n">>, v |-> JNull]>>)),
        shape |-> FALSE ],
      [ text  |-> <<"{", "\"", "s", "h", "o", "u", "l", "d", "S", "p", "e", "a", "k", "\"",
                    ":", "t", "r", "u", "e", ",", "\"", "t", "i", "m", "e", "R", "a", "n", "g",
                    "e", "\"", ":", "\"", "o", "v", "e", "r", " ", "t", "h", "e", " ", "p",
                    "a", "s", "t", " ", "w", "e", "e", "k", "\"", ",", "\"", "r", "e", "f",
                    "l", "e", "c", "t", "i", "o", "n", "\"", ":", "\"", "S", "t", "i", "l",
                    "l", " ", "t", "i", "r", "e", "d", ".", "\"", ",", "\"", "i", "n", "v",
                    "i", "t", "a", "t", "i", "o", "n", "\"", ":", "n", "u", "l", "l", "}">>,
        value |-> Some(JObj(<<[k |-> <<"s", "h", "o", "u", "l", "d", "S", "p", "e", "a", "k">>, v |-> JBool(TRUE)],
                               [k |-> <<"t", "i", "m", "e", "R", "a", "n", "g", "e">>, v |-> JStr(<<"o", "v", "e", "r", " ", "t", "h", "e", " ", "p", "a", "s",
                                    "t", " ", "w", "e", "e", "k">>)],
                               [k |-> <<"r", "e", "f", "l", "e", "c", "t", "i", "o", "n">>, v |-> JStr(<<"S", "t", "i", "l", "l", " ", "t", "i", "r", "e", "d", ".">>)],
                               [k |-> <<"i", "n", "v", "i", "t", "a", "t", "i", "o", "n">>, v |-> JNull]>>)),
        shape |-> TRUE ],
      [ text  |-> <<"{", "\"", "s", "h", "o", "u", "l", "d", "S", "p", "e", "a", "k", "\"",
                    ":", "t", "r", "u", "e", ",", "\"", "t", "i", "m", "e", "R", "a", "n", "g",
                    "e", "\"", ":", "\"", "o", "v", "e", "r", " ", "t", "h", "e", " ", "p",
                    "a", "s", "t", " ", "w", "e", "e", "k", "\"", ",", "\"", "r", "e", "f",
                    "l", "e", "c", "t", "i", "o", "n", "\"", ":", "\"", "S", "t", "i", "l",
                    "l", " ", "t", "i", "r", "e", "d", ".", "\"", ",", "\"", "t", "h", "e",
                    "m", "e", "s", "\"", ":", "[", "\"", "r", "e", "s", "t", "\"", "]", "}">>,
        value |-> Some(JObj(<<[k |-> <<"s", "h", "o", "u", "l", "d", "S", "p", "e", "a", "k">>, v |-> JBool(TRUE)],
                               [k |-> <<"t", "i", "m", "e", "R", "a", "n", "g", "e">>, v |-> JStr(<<"o", "v", "e", "r", " ", "t", "h", "e", " ", "p", "a", "s",
                                    "t", " ", "w", "e", "e", "k">>)],
                               [k |-> <<"r", "e", "f", "l", "e", "c", "t", "i", "o", "n">>, v |-> JStr(<<"S", "t", "i", "l", "l", " ", "t", "i", "r", "e", "d", ".">>)],
                               [k |-> <<"t", "h", "e", "m", "e", "s">>, v |-> JArr(<<JStr(<<"r", "e", "s", "t">>)>>)]>>)),
        shape |-> FALSE ],
      [ text  |-> <<"{", "\"", "s", "h", "o", "u", "l", "d", "S", "p", "e", "a", "k", "\"",
                    ":", "\"", "y", "e", "s", "\"", ",", "\"", "t", "i", "m", "e", "R", "a",
                    "n", "g", "e", "\"", ":", "\"", "o", "v", "e", "r", " ", "t", "h", "e",
                    " ", "p", "a", "s", "t", " ", "w", "e", "e", "k", "\"", ",", "\"", "r",
                    "e", "f", "l", "e", "c", "t", "i", "o", "n", "\"", ":", "\"", "S", "t",
                    "i", "l", "l", " ", "t", "i", "r", "e", "d", ".", "\"", ",", "\"", "t",
                    "h", "e", "m", "e", "s", "\"", ":", "[", "\"", "r", "e", "s", "t", "\"",
                    "]", ",", "\"", "i", "n", "v", "i", "t", "a", "t", "i", "o", "n", "\"",
                    ":", "n", "u", "l", "l", "}">>,
        value |-> Some(JObj(<<[k |-> <<"s", "h", "o", "u", "l", "d", "S", "p", "e", "a", "k">>, v |-> JStr(<<"y", "e", "s">>)],
                               [k |-> <<"t", "i", "m", "e", "R", "a", "n", "g", "e">>, v |-> JStr(<<"o", "v", "e", "r", " ", "t", "h", "e", " ", "p", "a", "s",
                                    "t", " ", "w", "e", "e", "k">>)],
                               [k |-> <<"r", "e", "f", "l", "e", "c", "t", "i", "o", "n">>, v |-> JStr(<<"S", "t", "i", "l", "l", " ", "t", "i", "r", "e", "d", ".">>)],
                               [k |-> <<"t", "h", "e", "m", "e", "s">>, v |-> JArr(<<JStr(<<"r", "e", "s", "t">>)>>)],
                               [k |-> <<"i", "n", "v", "i", "t", "a", "t", "i", "o", "n">>, v |-> JNull]>>)),
        shape |-> FALSE ],
      [ text  |-> <<"{", "\"", "s", "h", "o", "u", "l", "d", "S", "p", "e", "a", "k", "\"",
                    ":", "n", "u", "l", "l", ",", "\"", "t", "i", "m", "e", "R", "a", "n", "g",
                    "e", "\"", ":", "\"", "o", "v", "e", "r", " ", "t", "h", "e", " ", "p",
                    "a", "s", "t", " ", "w", "e", "e", "k", "\"", ",", "\"", "r", "e", "f",
                    "l", "e", "c", "t", "i", "o", "n", "\"", ":", "\"", "S", "t", "i", "l",
                    "l", " ", "t", "i", "r", "e", "d", ".", "\"", ",", "\"", "t", "h", "e",
                    "m", "e", "s", "\"", ":", "[", "\"", "r", "e", "s", "t", "\"", "]", ",",
                    "\"", "i", "n", "v", "i", "t", "a", "t", "i", "o", "n", "\"", ":", "n",
                    "u", "l", "l", "}">>,
        value |-> Some(JObj(<<[k |-> <<"s", "h", "o", "u", "l", "d", "S", "p", "e", "a", "k">>, v |-> JNull],
                               [k |-> <<"t", "i", "m", "e", "R", "a", "n", "g", "e">>, v |-> JStr(<<"o", "v", "e", "r", " ", "t", "h", "e", " ", "p", "a", "s",
                                    "t", " ", "w", "e", "e", "k">>)],
                               [k |-> <<"r", "e", "f", "l", "e", "c", "t", "i", "o", "n">>, v |-> JStr(<<"S", "t", "i", "l", "l", " ", "t", "i", "r", "e", "d", ".">>)],
                               [k |-> <<"t", "h", "e", "m", "e", "s">>, v |-> JArr(<<JStr(<<"r", "e", "s", "t">>)>>)],
                               [k |-> <<"i", "n", "v", "i", "t", "a", "t", "i", "o", "n">>, v |-> JNull]>>)),
        shape |-> FALSE ],
      [ text  |-> <<"{", "\"", "s", "h", "o", "u", "l", "d", "S", "p", "e", "a", "k", "\"",
                    ":", "t", "r", "u", "e", ",", "\"", "t", "i", "m", "e", "R", "a", "n", "g",
                    "e", "\"", ":", "7", ",", "\"", "r", "e", "f", "l", "e", "c", "t", "i",
                    "o", "n", "\"", ":", "\"", "S", "t", "i", "l", "l", " ", "t", "i", "r",
                    "e", "d", ".", "\"", ",", "\"", "t", "h", "e", "m", "e", "s", "\"", ":",
                    "[", "\"", "r", "e", "s", "t", "\"", "]", ",", "\"", "i", "n", "v", "i",
                    "t", "a", "t", "i", "o", "n", "\"", ":", "n", "u", "l", "l", "}">>,
        value |-> Some(JObj(<<[k |-> <<"s", "h", "o", "u", "l", "d", "S", "p", "e", "a", "k">>, v |-> JBool(TRUE)],
                               [k |-> <<"t", "i", "m", "e", "R", "a", "n", "g", "e">>, v |-> JNum(<<"7">>)],
                               [k |-> <<"r", "e", "f", "l", "e", "c", "t", "i", "o", "n">>, v |-> JStr(<<"S", "t", "i", "l", "l", " ", "t", "i", "r", "e", "d", ".">>)],
                               [k |-> <<"t", "h", "e", "m", "e", "s">>, v |-> JArr(<<JStr(<<"r", "e", "s", "t">>)>>)],
                               [k |-> <<"i", "n", "v", "i", "t", "a", "t", "i", "o", "n">>, v |-> JNull]>>)),
        shape |-> FALSE ],
      [ text  |-> <<"{", "\"", "s", "h", "o", "u", "l", "d", "S", "p", "e", "a", "k", "\"",
                    ":", "t", "r", "u", "e", ",", "\"", "t", "i", "m", "e", "R", "a", "n", "g",
                    "e", "\"", ":", "\"", "o", "v", "e", "r", " ", "t", "h", "e", " ", "p",
                    "a", "s", "t", " ", "w", "e", "e", "k", "\"", ",", "\"", "r", "e", "f",
                    "l", "e", "c", "t", "i", "o", "n", "\"", ":", "t", "r", "u", "e", ",",
                    "\"", "t", "h", "e", "m", "e", "s", "\"", ":", "[", "\"", "r", "e", "s",
                    "t", "\"", "]", ",", "\"", "i", "n", "v", "i", "t", "a", "t", "i", "o",
                    "n", "\"", ":", "n", "u", "l", "l", "}">>,
        value |-> Some(JObj(<<[k |-> <<"s", "h", "o", "u", "l", "d", "S", "p", "e", "a", "k">>, v |-> JBool(TRUE)],
                               [k |-> <<"t", "i", "m", "e", "R", "a", "n", "g", "e">>, v |-> JStr(<<"o", "v", "e", "r", " ", "t", "h", "e", " ", "p", "a", "s",
                                    "t", " ", "w", "e", "e", "k">>)],
                               [k |-> <<"r", "e", "f", "l", "e", "c", "t", "i", "o", "n">>, v |-> JBool(TRUE)],
                               [k |-> <<"t", "h", "e", "m", "e", "s">>, v |-> JArr(<<JStr(<<"r", "e", "s", "t">>)>>)],
                               [k |-> <<"i", "n", "v", "i", "t", "a", "t", "i", "o", "n">>, v |-> JNull]>>)),
        shape |-> FALSE ],
      [ text  |-> <<"{", "\"", "s", "h", "o", "u", "l", "d", "S", "p", "e", "a", "k", "\"",
                    ":", "t", "r", "u", "e", ",", "\"", "t", "i", "m", "e", "R", "a", "n", "g",
                    "e", "\"", ":", "\"", "o", "v", "e", "r", " ", "t", "h", "e", " ", "p",
                    "a", "s", "t", " ", "w", "e", "e", "k", "\"", ",", "\"", "r", "e", "f",
                    "l", "e", "c", "t", "i", "o", "n", "\"", ":", "\"", "S", "t", "i", "l",
                    "l", " ", "t", "i", "r", "e", "d", ".", "\"", ",", "\"", "t", "h", "e",
                    "m", "e", "s", "\"", ":", "\"", "r", "e", "s", "t", "\"", ",", "\"", "i",
                    "n", "v", "i", "t", "a", "t", "i", "o", "n", "\"", ":", "n", "u", "l", "l",
                    "}">>,
        value |-> Some(JObj(<<[k |-> <<"s", "h", "o", "u", "l", "d", "S", "p", "e", "a", "k">>, v |-> JBool(TRUE)],
                               [k |-> <<"t", "i", "m", "e", "R", "a", "n", "g", "e">>, v |-> JStr(<<"o", "v", "e", "r", " ", "t", "h", "e", " ", "p", "a", "s",
                                    "t", " ", "w", "e", "e", "k">>)],
                               [k |-> <<"r", "e", "f", "l", "e", "c", "t", "i", "o", "n">>, v |-> JStr(<<"S", "t", "i", "l", "l", " ", "t", "i", "r", "e", "d", ".">>)],
                               [k |-> <<"t", "h", "e", "m", "e", "s">>, v |-> JStr(<<"r", "e", "s", "t">>)],
                               [k |-> <<"i", "n", "v", "i", "t", "a", "t", "i", "o", "n">>, v |-> JNull]>>)),
        shape |-> FALSE ],
      [ text  |-> <<"{", "\"", "s", "h", "o", "u", "l", "d", "S", "p", "e", "a", "k", "\"",
                    ":", "t", "r", "u", "e", ",", "\"", "t", "i", "m", "e", "R", "a", "n", "g",
                    "e", "\"", ":", "\"", "o", "v", "e", "r", " ", "t", "h", "e", " ", "p",
                    "a", "s", "t", " ", "w", "e", "e", "k", "\"", ",", "\"", "r", "e", "f",
                    "l", "e", "c", "t", "i", "o", "n", "\"", ":", "\"", "S", "t", "i", "l",
                    "l", " ", "t", "i", "r", "e", "d", ".", "\"", ",", "\"", "t", "h", "e",
                    "m", "e", "s", "\"", ":", "[", "1", "]", ",", "\"", "i", "n", "v", "i",
                    "t", "a", "t", "i", "o", "n", "\"", ":", "n", "u", "l", "l", "}">>,
        value |-> Some(JObj(<<[k |-> <<"s", "h", "o", "u", "l", "d", "S", "p", "e", "a", "k">>, v |-> JBool(TRUE)],
                               [k |-> <<"t", "i", "m", "e", "R", "a", "n", "g", "e">>, v |-> JStr(<<"o", "v", "e", "r", " ", "t", "h", "e", " ", "p", "a", "s",
                                    "t", " ", "w", "e", "e", "k">>)],
                               [k |-> <<"r", "e", "f", "l", "e", "c", "t", "i", "o", "n">>, v |-> JStr(<<"S", "t", "i", "l", "l", " ", "t", "i", "r", "e", "d", ".">>)],
                               [k |-> <<"t", "h", "e", "m", "e", "s">>, v |-> JArr(<<JNum(<<"1">>)>>)],
                               [k |-> <<"i", "n", "v", "i", "t", "a", "t", "i", "o", "n">>, v |-> JNull]>>)),
        shape |-> FALSE ],
      [ text  |-> <<"{", "\"", "s", "h", "o", "u", "l", "d", "S", "p", "e", "a", "k", "\"",
                    ":", "t", "r", "u", "e", ",", "\"", "t", "i", "m", "e", "R", "a", "n", "g",
                    "e", "\"", ":", "\"", "o", "v", "e", "r", " ", "t", "h", "e", " ", "p",
                    "a", "s", "t", " ", "w", "e", "e", "k", "\"", ",", "\"", "r", "e", "f",
                    "l", "e", "c", "t", "i", "o", "n", "\"", ":", "\"", "S", "t", "i", "l",
                    "l", " ", "t", "i", "r", "e", "d", ".", "\"", ",", "\"", "t", "h", "e",
                    "m", "e", "s", "\"", ":", "n", "u", "l", "l", ",", "\"", "i", "n", "v",
                    "i", "t", "a", "t", "i", "o", "n", "\"", ":", "n", "u", "l", "l", "}">>,
        value |-> Some(JObj(<<[k |-> <<"s", "h", "o", "u", "l", "d", "S", "p", "e", "a", "k">>, v |-> JBool(TRUE)],
                               [k |-> <<"t", "i", "m", "e", "R", "a", "n", "g", "e">>, v |-> JStr(<<"o", "v", "e", "r", " ", "t", "h", "e", " ", "p", "a", "s",
                                    "t", " ", "w", "e", "e", "k">>)],
                               [k |-> <<"r", "e", "f", "l", "e", "c", "t", "i", "o", "n">>, v |-> JStr(<<"S", "t", "i", "l", "l", " ", "t", "i", "r", "e", "d", ".">>)],
                               [k |-> <<"t", "h", "e", "m", "e", "s">>, v |-> JNull],
                               [k |-> <<"i", "n", "v", "i", "t", "a", "t", "i", "o", "n">>, v |-> JNull]>>)),
        shape |-> FALSE ],
      [ text  |-> <<"{", "\"", "s", "h", "o", "u", "l", "d", "S", "p", "e", "a", "k", "\"",
                    ":", "t", "r", "u", "e", ",", "\"", "t", "i", "m", "e", "R", "a", "n", "g",
                    "e", "\"", ":", "\"", "o", "v", "e", "r", " ", "t", "h", "e", " ", "p",
                    "a", "s", "t", " ", "w", "e", "e", "k", "\"", ",", "\"", "r", "e", "f",
                    "l", "e", "c", "t", "i", "o", "n", "\"", ":", "\"", "S", "t", "i", "l",
                    "l", " ", "t", "i", "r", "e", "d", ".", "\"", ",", "\"", "t", "h", "e",
                    "m", "e", "s", "\"", ":", "[", "\"", "r", "e", "s", "t", "\"", "]", ",",
                    "\"", "i", "n", "v", "i", "t", "a", "t", "i", "o", "n", "\"", ":", "0",
                    "}">>,
        value |-> Some(JObj(<<[k |-> <<"s", "h", "o", "u", "l", "d", "S", "p", "e", "a", "k">>, v |-> JBool(TRUE)],
                               [k |-> <<"t", "i", "m", "e", "R", "a", "n", "g", "e">>, v |-> JStr(<<"o", "v", "e", "r", " ", "t", "h", "e", " ", "p", "a", "s",
                                    "t", " ", "w", "e", "e", "k">>)],
                               [k |-> <<"r", "e", "f", "l", "e", "c", "t", "i", "o", "n">>, v |-> JStr(<<"S", "t", "i", "l", "l", " ", "t", "i", "r", "e", "d", ".">>)],
                               [k |-> <<"t", "h", "e", "m", "e", "s">>, v |-> JArr(<<JStr(<<"r", "e", "s", "t">>)>>)],
                               [k |-> <<"i", "n", "v", "i", "t", "a", "t", "i", "o", "n">>, v |-> JNum(<<"0">>)]>>)),
        shape |-> FALSE ],
      [ text  |-> <<"{", "\"", "s", "h", "o", "u", "l", "d", "S", "p", "e", "a", "k", "\"",
                    ":", "t", "r", "u", "e", ",", "\"", "t", "i", "m", "e", "R", "a", "n", "g",
                    "e", "\"", ":", "\"", "o", "v", "e", "r", " ", "t", "h", "e", " ", "p",
                    "a", "s", "t", " ", "w", "e", "e", "k", "\"", ",", "\"", "r", "e", "f",
                    "l", "e", "c", "t", "i", "o", "n", "\"", ":", "\"", "S", "t", "i", "l",
                    "l", " ", "t", "i", "r", "e", "d", ".", "\"", ",", "\"", "t", "h", "e",
                    "m", "e", "s", "\"", ":", "[", "\"", "r", "e", "s", "t", "\"", "]", ",",
                    "\"", "i", "n", "v", "i", "t", "a", "t", "i", "o", "n", "\"", ":", "[",
                    "]", "}">>,
        value |-> Some(JObj(<<[k |-> <<"s", "h", "o", "u", "l", "d", "S", "p", "e", "a", "k">>, v |-> JBool(TRUE)],
                               [k |-> <<"t", "i", "m", "e", "R", "a", "n", "g", "e">>, v |-> JStr(<<"o", "v", "e", "r", " ", "t", "h", "e", " ", "p", "a", "s",
                                    "t", " ", "w", "e", "e", "k">>)],
                               [k |-> <<"r", "e", "f", "l", "e", "c", "t", "i", "o", "n">>, v |-> JStr(<<"S", "t", "i", "l", "l", " ", "t", "i", "r", "e", "d", ".">>)],
                               [k |-> <<"t", "h", "e", "m", "e", "s">>, v |-> JArr(<<JStr(<<"r", "e", "s", "t">>)>>)],
                               [k |-> <<"i", "n", "v", "i", "t", "a", "t", "i", "o", "n">>, v |-> JArr(<<>>)]>>)),
        shape |-> FALSE ],
      [ text  |-> <<"{", "\"", "w", "r", "a", "p", "\"", ":", "{", "\"", "n", "o", "t", "e",
                    "\"", ":", "1", "}", "}">>,
        value |-> Some(JObj(<<[k |-> <<"w", "r", "a", "p">>, v |-> JObj(<<[k |-> <<"n", "o", "t", "e">>, v |-> JNum(<<"1">>)]>>)]>>)),
        shape |-> FALSE ],
      [ text  |-> <<"{", "\"", "a", "\"", ":", "\"", "{", "b", "}", "\"", "}">>,
        value |-> Some(JObj(<<[k |-> <<"a">>, v |-> JStr(<<"{", "b", "}">>)]>>)),
        shape |-> FALSE ],
      [ text  |-> <<"{", "\"", "a", "\"", ":", "\"", "q", "\\", "\"", " ", "}", " ", "x", "\"",
                    "}">>,
        value |-> Some(JObj(<<[k |-> <<"a">>, v |-> JStr(<<"q", "\"", " ", "}", " ", "x">>)]>>)),
        shape |-> FALSE ]
    >>

\* The objects made from one object of the expected shape by adding a
\* member, by leaving one member out or by giving one member a value of
\* another type: which member is missing, which is of another type.
ShapeVariantIds == 9..24

ShapeFacts ==
    [ id \in ShapeVariantIds |->
        <<
          [ missing |-> Null, mistyped |-> Null ],
          [ missing |-> Null, mistyped |-> Null ],
          [ missing |-> Some(KEY_shouldSpeak), mistyped |-> Null ],
          [ missing |-> Some(KEY_timeRange), mistyped |-> Null ],
          [ missing |-> Some(KEY_reflection), mistyped |-> Null ],
          [ missing |-> Some(KEY_themes), mistyped |-> Null ],
          [ missing |-> Some(KEY_invitation), mistyped |-> Null ],
          [ missing |-> Null, mistyped |-> Some(KEY_shouldSpeak) ],
          [ missing |-> Null, mistyped |-> Some(KEY_shouldSpeak) ],
          [ missing |-> Null, mistyped |-> Some(KEY_timeRange) ],
          [ missing |-> Null, mistyped |-> Some(KEY_reflection) ],
          [ missing |-> Null, mistyped |-> Some(KEY_themes) ],
          [ missing |-> Null, mistyped |-> Some(KEY_themes) ],
          [ missing |-> Null, mistyped |-> Some(KEY_themes) ],
          [ missing |-> Null, mistyped |-> Some(KEY_invitation) ],
          [ missing |-> Null, mistyped |-> Some(KEY_invitation) ]
        >>[id - 8] ]

\* The objects that hold an object or an object's text within them.
NestingIds == 25..27

\* The prose before the fence, with the objects it holds.
ParserPrefixes ==
    <<
      [ text |-> <<>>, objects |-> <<>> ],
      [ text |-> <<"S", "u", "r", "e", ":", "\n">>, objects |-> <<>> ],
      [ text |-> <<"L", "i", "k", "e", " ">> \o ParserObjects[3].text
                   \o <<" ", "h", "e", "r", "e", ":", "\n">>,
        objects |-> <<3>> ],
      [ text |-> ParserObjects[1].text \o <<"\n", "o", "r", ":", "\n">>, objects |-> <<1>> ]
    >>

\* The fences around the inner objects: a pair with the tag json, a pair
\* without a tag, a pair with the tag in capitals between spaces, an opening
\* fence that is never closed, and no fence.
FenceForms ==
    <<
      [ open  |-> Fence \o <<"j", "s", "o", "n", "\n">>,
        close |-> <<"\n">> \o Fence \o <<"\n">>, closed |-> TRUE ],
      [ open  |-> Fence \o <<"\n">>,
        close |-> <<"\n">> \o Fence \o <<"\n">>, closed |-> TRUE ],
      [ open  |-> Fence \o <<" ", "J", "S", "O", "N", " ", " ", "\n">>,
        close |-> Fence, closed |-> TRUE ],
      [ open  |-> Fence \o <<"j", "s", "o", "n", "\n">>,
        close |-> <<"\n">>, closed |-> FALSE ],
      [ open  |-> <<>>, close |-> <<"\n">>, closed |-> FALSE ]
    >>

\* The objects between the fences, and those after the closing fence.
InnerChoices ==
    { <<>>, <<1>>, <<1, 2>>, <<2, 3>>, <<3>>, <<4>>, <<6>>, <<3, 5>>, <<2, 6>>, <<7>>, <<8, 1>> }

TrailingChoices == { <<>>, <<2>>, <<3>> }

RECURSIVE objectTexts(_)
objectTexts(ids) ==
    IF ids = <<>> THEN <<>>
    ELSE <<ParserObjects[Head(ids)].text>> \o objectTexts(Tail(ids))

\* The reply text made of the parts.
replyText(prefix, fence, inner, trailing) ==
    ParserPrefixes[prefix].text \o FenceForms[fence].open
        \o join(objectTexts(inner), <<"\n">>) \o FenceForms[fence].close
        \o join(objectTexts(trailing), <<"\n">>)

\* No text of the bounded replies holds more candidates than this.
MaxCandidates == 4

\* The parser's state: pc is "text" (a reply text to parse), "scanned"
\* (parseBestJsonFromModelText has returned result, having stripped the
\* fences and extracted candidates), "tried" (tryParseJsonLoose has
\* returned loose for candidate, of which JSON.parse made strict) or
\* "decided" (generateJournalPatterns has made value of result, accepted
\* telling whether the schema took it).
newParse(prefix, fence, inner, trailing) ==
    [ pc         |-> "text",
      text       |-> replyText(prefix, fence, inner, trailing),
      prefix     |-> prefix,
      fence      |-> fence,
      inner      |-> inner,
      trailing   |-> trailing,
      stripped   |-> <<>>,
      candidates |-> <<>>,
      result     |-> Null,
      candidate  |-> <<>>,
      strict     |-> Null,
      loose      |-> Null,
      accepted   |-> FALSE,
      value      |-> Null ]

\* Lines 197-215, for the text of the state.
parseScanned(c) ==
    [c EXCEPT !.pc = "scanned",
              !.stripped = stripCodeFences(c.text),
              !.candidates = extractJsonObjects(stripCodeFences(c.text)),
              !.result = parseBestJsonFromModelText(c.text)]

\* Lines 107-132, for the i-th candidate of the state.
parseTried(c, i) ==
    [c EXCEPT !.pc = "tried",
              !.candidate = c.candidates[i],
              !.strict = JSONparse(c.candidates[i]),
              !.loose = tryParseJsonLoose(c.candidates[i])]

\* The journal and the attempt of the replies that are decided: five
\* non-vent entries that span twelve days, the reply streamed in one part.
ParserEntries == entriesOf(rowsOldestFirst({2, 4, 5, 6, 7}, 1))

attemptOf(text) ==
    runOnce(DEFAULT_MODEL,
            [ kind |-> "streams", streamedText |-> text, parts |-> Some(<<text>>),
              responseText |-> text, finishReason |-> Some("STOP") ])

\* Lines 634-811 with debug on, for the result of the state.
parseDecided(c) ==
    [c EXCEPT !.pc = "decided",
              !.accepted = ~IsNull(c.result) /\ schemaAccepts(c.result[1]),
              !.value = Some(parsedResult(ParserEntries, TRUE, attemptOf(c.text), c.result).value)]

InitParser ==
    /\ env = [GEMINI_API_KEY |-> FALSE, GEMINI_MODEL |-> Null]
    /\ cachedModelName = Null
    /\ db = [u \in Users |-> 1]
    /\ patternsCacheByUser = [u \in Users |-> Null]
    /\ slotWriter = [u \in Users |-> Null]
    /\ now = 0
    /\ inflight = [i \in Slots |-> Idle]
    /\ requests = 0
    /\ edits = 0
    /\ last = NoResponse
    /\ call \in { newParse(prefix, fence, inner, trailing) :
                    prefix \in DOMAIN ParserPrefixes, fence \in DOMAIN FenceForms,
                    inner \in InnerChoices, trailing \in TrailingChoices }
                 \cup { newParse(1, 5, <<id>>, <<>>) : id \in ShapeVariantIds \cup NestingIds }

ParserScan ==
    /\ call.pc = "text"
    /\ call' = parseScanned(call)
    /\ UNCHANGED <<env, cachedModelName, db, patternsCacheByUser, slotWriter, now, inflight,
                   requests, edits, last>>

ParserTry(i) ==
    /\ call.pc = "scanned"
    /\ i <= Len(call.candidates)
    /\ call' = parseTried(call, i)
    /\ UNCHANGED <<env, cachedModelName, db, patternsCacheByUser, slotWriter, now, inflight,
                   requests, edits, last>>

ParserDecide ==
    /\ call.pc = "scanned"
    /\ call' = parseDecided(call)
    /\ UNCHANGED <<env, cachedModelName, db, patternsCacheByUser, slotWriter, now, inflight,
                   requests, edits, last>>

NextParser ==
    \/ ParserScan
    \/ ParserDecide
    \/ \E i \in 1..MaxCandidates : ParserTry(i)

SpecParser == InitParser /\ [][NextParser]_vars

---------------------------------------------------------------------------
(* selectEntriesForModel and compactEntryText.                             *)

MAX_ENTRIES == 30

MAX_CHARS_TOTAL == 8000

IsVent(e) == e.ventEntry

\* `P1: ${text}` and the like.
labelled(label, text) == IF trim(text) = <<>> THEN <<>> ELSE label \o <<":", " ">> \o trim(text)

IsNonEmpty(s) == s # <<>>

\* Lines 347-359.
compactEntryText(entry) ==
    LET parts == SelectSeq(<< trim(entry.body),
                              labelled(<<"P", "1">>, entry.prompt1),
                              labelled(<<"A", "1">>, entry.p1Answer),
                              labelled(<<"P", "2">>, entry.prompt2),
                              labelled(<<"A", "2">>, entry.p2Answer) >>, IsNonEmpty)
        combined == join(parts, <<"\n">>)
    IN  IF Len(combined) > 900 THEN slice(combined, 0, 900) \o <<"U2026">> ELSE combined

\* Lines 377-384: the entry with its fields cut to their caps.
boundedEntry(e) ==
    [e EXCEPT !.body = slice(@, 0, 500),
              !.prompt1 = slice(@, 0, 140),
              !.prompt2 = slice(@, 0, 140),
              !.p1Answer = slice(@, 0, 260),
              !.p2Answer = slice(@, 0, 260)]

\* Line 387.
entryCost(bounded) == 40 + Len(compactEntryText(bounded))

\* A variant of candidatesNewestFirst that puts the vent entries first,
\* which C26 must tell from it.
candidatesVentFirst(entries) ==
    slice(reverse(SelectSeq(entries, IsVent)), 0, 6) \o reverse(nonVentOf(entries))

\* Line 371: the non-vent entries newest first, then the 6 newest vent
\* entries newest first.
candidatesNewestFirst(entries) ==
    reverse(nonVentOf(entries)) \o slice(reverse(SelectSeq(entries, IsVent)), 0, 6)

RECURSIVE pickFrom(_, _, _, _)

\* A variant of pickEntry that compares the characters used so far, without
\* the entry's cost, with the budget, which C24 must tell from it.
pickEntryBeforeCost(candidates, i, picked, usedChars) ==
    IF Len(picked) > 0 /\ usedChars > MAX_CHARS_TOTAL THEN picked
    ELSE pickFrom(candidates, i + 1, Append(picked, boundedEntry(candidates[i])),
                  usedChars + entryCost(boundedEntry(candidates[i])))

\* Lines 377-391: the body of the loop for candidates[i] once the count has
\* been checked.
pickEntry(candidates, i, picked, usedChars) ==
    IF Len(picked) > 0 /\ usedChars + entryCost(boundedEntry(candidates[i])) > MAX_CHARS_TOTAL
    THEN picked
    ELSE pickFrom(candidates, i + 1, Append(picked, boundedEntry(candidates[i])),
                  usedChars + entryCost(boundedEntry(candidates[i])))

\* Lines 376-392: the loop from candidates[i] on.
pickFrom(candidates, i, picked, usedChars) ==
    IF i > Len(candidates) \/ Len(picked) >= MAX_ENTRIES THEN picked
    ELSE pickEntry(candidates, i, picked, usedChars)

\* Lines 361-397.
selectEntriesForModel(entries) ==
    reverse(pickFrom(candidatesNewestFirst(entries), 1, <<>>, 0))

---------------------------------------------------------------------------
(* The journals given to selectEntriesForModel: entries of consecutive     *)
(* days, oldest first, each short (a body of a few words) or long (every   *)
(* field over its cap), vent or not.                                       *)

SelectDates ==
    <<
      <<"2", "0", "2", "4", "-", "0", "1", "-", "0", "1">>,
      <<"2", "0", "2", "4", "-", "0", "1", "-", "0", "2">>,
      <<"2", "0", "2", "4", "-", "0", "1", "-", "0", "3">>,
      <<"2", "0", "2", "4", "-", "0", "1", "-", "0", "4">>,
      <<"2", "0", "2", "4", "-", "0", "1", "-", "0", "5">>,
      <<"2", "0", "2", "4", "-", "0", "1", "-", "0", "6">>,
      <<"2", "0", "2", "4", "-", "0", "1", "-", "0", "7">>,
      <<"2", "0", "2", "4", "-", "0", "1", "-", "0", "8">>,
      <<"2", "0", "2", "4", "-", "0", "1", "-", "0", "9">>,
      <<"2", "0", "2", "4", "-", "0", "1", "-", "1", "0">>,
      <<"2", "0", "2", "4", "-", "0", "1", "-", "1", "1">>,
      <<"2", "0", "2", "4", "-", "0", "1", "-", "1", "2">>,
      <<"2", "0", "2", "4", "-", "0", "1", "-", "1", "3">>,
      <<"2", "0", "2", "4", "-", "0", "1", "-", "1", "4">>,
      <<"2", "0", "2", "4", "-", "0", "1", "-", "1", "5">>,
      <<"2", "0", "2", "4", "-", "0", "1", "-", "1", "6">>,
      <<"2", "0", "2", "4", "-", "0", "1", "-", "1", "7">>,
      <<"2", "0", "2", "4", "-", "0", "1", "-", "1", "8">>,
      <<"2", "0", "2", "4", "-", "0", "1", "-", "1", "9">>,
      <<"2", "0", "2", "4", "-", "0", "1", "-", "2", "0">>,
      <<"2", "0", "2", "4", "-", "0", "1", "-", "2", "1">>,
      <<"2", "0", "2", "4", "-", "0", "1", "-", "2", "2">>,
      <<"2", "0", "2", "4", "-", "0", "1", "-", "2", "3">>,
      <<"2", "0", "2", "4", "-", "0", "1", "-", "2", "4">>,
      <<"2", "0", "2", "4", "-", "0", "1", "-", "2", "5">>,
      <<"2", "0", "2", "4", "-", "0", "1", "-", "2", "6">>,
      <<"2", "0", "2", "4", "-", "0", "1", "-", "2", "7">>,
      <<"2", "0", "2", "4", "-", "0", "1", "-", "2", "8">>,
      <<"2", "0", "2", "4", "-", "0", "1", "-", "2", "9">>,
      <<"2", "0", "2", "4", "-", "0", "1", "-", "3", "0">>,
      <<"2", "0", "2", "4", "-", "0", "1", "-", "3", "1">>,
      <<"2", "0", "2", "4", "-", "0", "2", "-", "0", "1">>,
      <<"2", "0", "2", "4", "-", "0", "2", "-", "0", "2">>,
      <<"2", "0", "2", "4", "-", "0", "2", "-", "0", "3">>,
      <<"2", "0", "2", "4", "-", "0", "2", "-", "0", "4">>,
      <<"2", "0", "2", "4", "-", "0", "2", "-", "0", "5">>,
      <<"2", "0", "2", "4", "-", "0", "2", "-", "0", "6">>,
      <<"2", "0", "2", "4", "-", "0", "2", "-", "0", "7">>,
      <<"2", "0", "2", "4", "-", "0", "2", "-", "0", "8">>,
      <<"2", "0", "2", "4", "-", "0", "2", "-", "0", "9">>,
      <<"2", "0", "2", "4", "-", "0", "2", "-", "1", "0">>
    >>

Fill(n, c) == [i \in 1..n |-> c]

\* The entry of day i of the kind k.
entryOfKind(i, k) ==
    IF k.long
    THEN [ entryDate |-> SelectDates[i],
           body      |-> Fill(600, "b"),
           prompt1   |-> Fill(200, "p"),
           prompt2   |-> Fill(200, "q"),
           p1Answer  |-> Fill(300, "a"),
           p2Answer  |-> Fill(300, "c"),
           ventEntry |-> k.vent ]
    ELSE [ entryDate |-> SelectDates[i],
           body      |-> <<" ", "q", "u", "i", "e", "t", " ", "d", "a", "y", " ">>,
           prompt1   |-> <<>>,
           prompt2   |-> <<>>,
           p1Answer  |-> <<>>,
           p2Answer  |-> <<>>,
           ventEntry |-> k.vent ]

\* The cost line 387 gives an entry of the kind: a short entry is its
\* trimmed body of 9 characters; a long one is cut to 900 characters and
\* the ellipsis.
KindCost(k) == IF k.long THEN 40 + 901 ELSE 40 + 9

\* The numbers of non-vent and of vent entries of the journals.
NonVentCounts == {0, 1, 2, 5, 8, 9, 10, 29, 30, 31, 32}

VentCounts == {0, 1, 2, 6, 7, 8}

\* Where the vent entries lie: the newest days, the oldest days, or every
\* other day from the oldest on.
Layouts == {"newest", "oldest", "between"}

\* Which entries are long: none, all, or every other one.
Lengths == {"short", "long", "mixed"}

\* Whether the entry of day i, of n + v days, is a vent entry.
ventAt(i, n, v, layout) ==
    IF layout = "newest" THEN i > n
    ELSE IF layout = "oldest" THEN i <= v
    ELSE IF i <= 2 * Min(n, v) THEN i % 2 = 0
    ELSE IF n >= v THEN FALSE ELSE TRUE

kindsOf(n, v, layout, lengths) ==
    [ i \in 1..(n + v) |->
        [ vent |-> ventAt(i, n, v, layout),
          long |-> (lengths = "long" \/ (lengths = "mixed" /\ i % 2 = 1)) ] ]

newSelection(kinds) ==
    [ pc       |-> "entries",
      kinds    |-> kinds,
      entries  |-> [i \in 1..Len(kinds) |-> entryOfKind(i, kinds[i])],
      selected |-> <<>> ]

\* Line 405: buildGeminiRequest has selected the entries.
selectionMade(c) == [c EXCEPT !.pc = "selected", !.selected = selectEntriesForModel(c.entries)]

InitSelect ==
    /\ env = [GEMINI_API_KEY |-> TRUE, GEMINI_MODEL |-> Null]
    /\ cachedModelName = Null
    /\ db = [u \in Users |-> 1]
    /\ patternsCacheByUser = [u \in Users |-> Null]
    /\ slotWriter = [u \in Users |-> Null]
    /\ now = 0
    /\ inflight = [i \in Slots |-> Idle]
    /\ requests = 0
    /\ edits = 0
    /\ last = NoResponse
    /\ call \in { newSelection(kindsOf(n, v, layout, lengths)) :
                    n \in NonVentCounts, v \in VentCounts,
                    layout \in Layouts, lengths \in Lengths }

SelectEntries ==
    /\ call.pc = "entries"
    /\ call' = selectionMade(call)
    /\ UNCHANGED <<env, cachedModelName, db, patternsCacheByUser, slotWriter, now, inflight,
                   requests, edits, last>>

NextSelect == SelectEntries

SpecSelect == InitSelect /\ [][NextSelect]_vars

---------------------------------------------------------------------------
(* The GET route with two users.  patternsCacheByUser has one slot per     *)
(* user; cachedModelName (line 98 of username-email.ts) is one variable of *)
(* the process, whoever asks.                                              *)

TwoUsers == {"ana", "ben"}

\* The fetch of the model list throws, or lists the flash models.
UsersListResponses == {1, 4}

\* The provider is rate limited, or replies with a clean reflection.
UsersOutcomes == {1, 4}

InitUsers ==
    /\ env \in {e \in EnvConfigs : e.GEMINI_API_KEY}
    /\ cachedModelName = Null
    /\ db \in [TwoUsers -> {2, 3}]
    /\ patternsCacheByUser = [u \in TwoUsers |-> Null]
    /\ slotWriter = [u \in TwoUsers |-> Null]
    /\ now = 0
    /\ inflight = [i \in Slots |-> Idle]
    /\ requests = 0
    /\ edits = 0
    /\ last = NoResponse
    /\ call = NoCall

NextUsers ==
    \/ \E u \in TwoUsers, refresh \in BOOLEAN, debug \in BOOLEAN : Get(u, refresh, debug)
    \/ \E i \in Slots, k \in UsersListResponses : ModelsListed(i, k)
    \/ \E i \in Slots, k \in UsersOutcomes : ProviderSettled(i, k)

SpecUsers == InitUsers /\ [][NextUsers]_vars

---------------------------------------------------------------------------
(* The GET route when every awaited call settles: the fetch of the model   *)
(* list and the provider call of a request in flight resolve or reject in  *)
(* the end.  Nothing else of a request waits on anything outside the       *)
(* handler.                                                                *)

\* The provider is rate limited, or replies with a clean reflection.
SettlingOutcomes == {1, 4, 12}

InitSettling ==
    /\ env \in {e \in EnvConfigs : e.GEMINI_API_KEY}
    /\ cachedModelName = Null
    /\ db = [u \in Users |-> 2]
    /\ patternsCacheByUser = [u \in Users |-> Null]
    /\ slotWriter = [u \in Users |-> Null]
    /\ now = 0
    /\ inflight = [i \in Slots |-> Idle]
    /\ requests = 0
    /\ edits = 0
    /\ last = NoResponse
    /\ call = NoCall

NextSettling ==
    \/ \E u \in Users, refresh \in BOOLEAN, debug \in BOOLEAN : Get(u, refresh, debug)
    \/ \E i \in Slots, k \in RouteListResponses : ModelsListed(i, k)
    \/ \E i \in Slots, k \in SettlingOutcomes : ProviderSettled(i, k)
    \/ \E d \in TickSteps : Tick(d)

\* The step by which the provider call of the request in slot i settles and
\* the request is answered: the step of ProviderSettled(i, k), whatever the
\* outcome k, told by what it does to the requests in flight.
Settled(i) ==
    /\ inflight[i] # Idle
    /\ inflight[i].call.pc = "generating"
    /\ inflight' = [inflight EXCEPT ![i] = Idle]

\* The awaited calls of the request in slot i settle in the end: the fetch
\* of the model list, then the provider call.
Settling ==
    \A i \in Slots :
        /\ WF_vars(\E k \in RouteListResponses : ModelsListed(i, k))
        /\ WF_inflight(Settled(i))

SpecSettling == InitSettling /\ [][NextSettling]_vars /\ Settling


---------------------------------------------------------------------------
(* Properties.  The route's properties speak of last, the response made by *)
(* the step that led to the state; those of generateJournalPatterns speak  *)
(* of call once it has returned.                                           *)

\* The last step answered a GET that got as far as reading the cache.
Answered == last.served \in {"fast", "fallback", "fresh", "error"}

\* The last step answered with a 200 body.
AnsweredValue == last.served \in {"fast", "fallback", "fresh"}

Returned == call.pc = "returned"

NonVentDates(entries) ==
    {entries[i].entryDate : i \in {j \in 1..Len(entries) : ~entries[j].ventEntry}}

NonVentCount(entries) == Cardinality({j \in 1..Len(entries) : ~entries[j].ventEntry})

NonVentDays(entries) == {parseIsoDate(d)[1] : d \in NonVentDates(entries)}

\* The whole UTC days from the oldest to the newest non-vent entry.
NonVentSpan(entries) ==
    LET days == NonVentDays(entries) IN
    (CHOOSE hi \in days : \A d \in days : d <= hi) - (CHOOSE lo \in days : \A d \in days : lo <= d)

IsSilentValue(v) ==
    /\ v.shouldSpeak = FALSE
    /\ v.reflection = Null
    /\ v.themes = <<>>
    /\ v.timeRange = Null
    /\ v.invitation = Null

HasBannedSubstring(text) ==
    \E k \in 1..Len(BANNED_SUBSTRINGS) :
        \E i \in 0..(Len(text) - Len(BANNED_SUBSTRINGS[k])) :
            \A j \in 1..Len(BANNED_SUBSTRINGS[k]) :
                LowerChar(text[i + j]) = BANNED_SUBSTRINGS[k][j]

ValueIsClean(v) ==
    /\ IsNull(v.reflection) \/ ~HasBannedSubstring(v.reflection[1])
    /\ \A i \in 1..Len(v.themes) : ~HasBannedSubstring(v.themes[i])

TimeRanges == {TIME_RANGE_WEEK, TIME_RANGE_TWO_WEEKS, TIME_RANGE_FEW_WEEKS}

\* The age of slot at the time of the state.
AgeOf(slot) == now - slot[1].atMs

\* The journal of snapshot i passes the gate: at least 4 non-vent entries
\* that span at least 6 days.
SnapshotEligible(i) ==
    /\ NonVentCount(entriesOf(Snapshots[i])) >= 4
    /\ NonVentSpan(entriesOf(Snapshots[i])) >= 6

\* C1: whenever generateJournalPatterns returns for entries of which fewer
\* than 4 are non-vent, it returns ok with the silent value (shouldSpeak
\* false, reflection null, themes empty, timeRange null, invitation null),
\* with the debug reason not_enough_entries when debug is on, and it has
\* called neither the provider nor its model list, key or no key.
C1_FewEntriesAreSilent ==
    (Returned /\ NonVentCount(call.entriesAll) < 4) =>
        /\ call.result[1].ok
        /\ IsSilentValue(call.result[1].value)
        /\ call.debug => /\ ~IsNull(call.result[1].value.debug)
                         /\ call.result[1].value.debug[1].reason = "not_enough_entries"
                         /\ call.result[1].value.debug[1].attempted = FALSE
        /\ ~call.debug => IsNull(call.result[1].value.debug)
        /\ call.providerCalls = 0
        /\ call.listCalls = 0

\* A return for three non-vent entries a week or more apart, with debug on
\* and no key configured.
C1_Witness ==
    /\ Returned
    /\ call.debug
    /\ ~env.GEMINI_API_KEY
    /\ NonVentCount(call.entriesAll) = 3
    /\ NonVentSpan(call.entriesAll) >= 6
    /\ call.result[1].ok

\* C2 as stated: whenever generateJournalPatterns returns, with debug on,
\* for entries whose non-vent span is under 6 days, the gate has rejected
\* them with the reason not_enough_span.
C2_Original ==
    (Returned /\ call.debug /\ NonVentCount(call.entriesAll) >= 1
              /\ NonVentSpan(call.entriesAll) < 6) =>
        /\ call.result[1].ok
        /\ ~IsNull(call.result[1].value.debug)
        /\ call.result[1].value.debug[1].reason = "not_enough_span"

\* C2, amended: whenever generateJournalPatterns returns for entries of
\* which at least 4 are non-vent and whose non-vent span is under 6 days,
\* the gate has rejected them: the silent value, no provider call, and the
\* reason not_enough_span when debug is on.  (With fewer than 4 non-vent
\* entries the reason is not_enough_entries, whatever the span.)
C2_ShortSpanIsNotEnoughSpan ==
    (Returned /\ NonVentCount(call.entriesAll) >= 4 /\ NonVentSpan(call.entriesAll) < 6) =>
        /\ call.result[1].ok
        /\ IsSilentValue(call.result[1].value)
        /\ call.debug => /\ ~IsNull(call.result[1].value.debug)
                         /\ call.result[1].value.debug[1].reason = "not_enough_span"
                         /\ call.result[1].value.debug[1].attempted = FALSE
        /\ call.providerCalls = 0
        /\ call.listCalls = 0

\* A return, with debug on, for four non-vent entries within five days,
\* given newest first.
C2_Witness ==
    /\ Returned
    /\ call.debug
    /\ NonVentCount(call.entriesAll) = 4
    /\ NonVentSpan(call.entriesAll) \in 1..5
    /\ localeCompare(call.entriesAll[1].entryDate,
                     call.entriesAll[Len(call.entriesAll)].entryDate) > 0
    /\ call.result[1].value.debug[1].reason = "not_enough_span"

\* C3 as stated: no user's slot ever holds a silent value (shouldSpeak
\* false, reflection, invitation and timeRange null, themes empty).
C3_SlotNeverSilent ==
    \A u \in Users :
        \/ IsNull(patternsCacheByUser[u])
        \/ ~IsSilentValue(patternsCacheByUser[u][1].value)

\* C4: when the provider call of a request without debug fails while the
\* user's slot holds a non-silent value written at most CACHE_TTL_MS ago,
\* the response is that value, unchanged and alone, and the slot stays as
\* it was.
C4_FailureServesCachedValue ==
    ( /\ Answered
      /\ ~last.debug
      /\ ~IsNull(last.outcome)
      /\ ProviderOutcomes[last.outcome[1]].kind = "throws"
      /\ ~IsNull(last.slotBefore)
      /\ ~IsSilentValue(last.slotBefore[1].value)
      /\ AgeOf(last.slotBefore) >= 0
      /\ AgeOf(last.slotBefore) <= 5 * 60 * 1000 ) =>
        /\ last.response.status = 200
        /\ last.response.body.value = last.slotBefore[1].value
        /\ IsNull(last.response.body.debugMeta)
        /\ IsNull(last.response.body.cacheMeta)
        /\ patternsCacheByUser[last.user] = last.slotBefore

\* A provider failure answered from a slot that is exactly CACHE_TTL_MS old.
C4_Witness ==
    /\ Answered
    /\ ~last.debug
    /\ last.providerCalls = 1
    /\ ~IsNull(last.outcome)
    /\ ProviderOutcomes[last.outcome[1]].kind = "throws"
    /\ ~IsNull(last.slotBefore)
    /\ last.slotBefore[1].value.shouldSpeak
    /\ AgeOf(last.slotBefore) = 5 * 60 * 1000
    /\ last.response.body.value = last.slotBefore[1].value

\* C5 as stated, for the request that wrote the user's slot and a request
\* answered while the slot is at most CACHE_TTL_MS old and holds the
\* fingerprint of its own snapshot: the two responses have the same body
\* and the two requests made at most one provider call between them.
C5_Original ==
    ( /\ Answered
      /\ ~IsNull(last.slotBefore)
      /\ last.slotBefore[1].fingerprint = last.fingerprint
      /\ AgeOf(last.slotBefore) >= 0
      /\ AgeOf(last.slotBefore) <= 5 * 60 * 1000 ) =>
        /\ last.response.body = last.writerBefore[1].body
        /\ last.providerCalls + last.writerBefore[1].providerCalls <= 1

\* C5, amended: a request without refresh and without debug that finds the
\* user's slot at most CACHE_TTL_MS old and of its own fingerprint, the
\* slot having been written by a request without debug, is answered with
\* the body the writer was answered with, and makes no provider call: at
\* most one between the two.  (A request with refresh=1 calls the provider
\* again, and debug changes the body.)
C5_RepeatIsIdentical ==
    ( /\ Answered
      /\ ~last.refresh
      /\ ~last.debug
      /\ last.arrival = "hit"
      /\ ~last.writerBefore[1].debug ) =>
        /\ last.response.status = 200
        /\ last.response.body = last.writerBefore[1].body
        /\ last.providerCalls = 0
        /\ last.writerBefore[1].providerCalls <= 1

\* A repeat, some time after a request whose provider call wrote the slot.
C5_Witness ==
    /\ Answered
    /\ ~last.refresh
    /\ ~last.debug
    /\ last.arrival = "hit"
    /\ ~last.writerBefore[1].debug
    /\ last.writerBefore[1].providerCalls = 1
    /\ AgeOf(last.slotBefore) > 0
    /\ last.response.body = last.writerBefore[1].body

\* C6 as stated: a request that finds the user's slot older than
\* CACHE_TTL_MS, or of another fingerprint than its snapshot's, has called
\* the provider by the time it is answered.
C6_Original ==
    (Answered /\ last.arrival \in {"expired", "changed"}) => last.providerCalls >= 1

\* C6, amended: a request that finds the user's slot older than
\* CACHE_TTL_MS, or of another fingerprint than its snapshot's, has called
\* the provider exactly once by the time it is answered, provided the key
\* is configured and its snapshot passes the gate (at least 4 non-vent
\* entries spanning at least 6 days); otherwise it has not called it.
C6_StaleSlotCallsProvider ==
    (Answered /\ last.arrival \in {"expired", "changed"}) =>
        IF env.GEMINI_API_KEY /\ SnapshotEligible(last.snapshot)
        THEN last.providerCalls = 1 /\ ~IsNull(last.outcome)
        ELSE last.providerCalls = 0

\* An eligible request that found an expired slot and reached the provider.
C6_Witness ==
    /\ Answered
    /\ ~last.refresh
    /\ last.arrival = "expired"
    /\ SnapshotEligible(last.snapshot)
    /\ last.providerCalls = 1

\* C7 as stated: a response served from the cache uses a slot whose
\* fingerprint is that of the request's snapshot and whose age is within
\* 0..CACHE_TTL_MS.
C7_Original ==
    (Answered /\ last.served \in {"fast", "fallback"}) =>
        /\ last.slotBefore[1].fingerprint = last.fingerprint
        /\ AgeOf(last.slotBefore) >= 0
        /\ AgeOf(last.slotBefore) <= 5 * 60 * 1000

\* C7, amended: a response served from the cache uses a slot whose age is
\* within 0..CACHE_TTL_MS; on the fast path the slot's fingerprint is that
\* of the request's snapshot.  (The fallback after a silent run does not
\* compare fingerprints.)
C7_ServedSlotIsRecent ==
    (Answered /\ last.served \in {"fast", "fallback"}) =>
        /\ ~IsNull(last.slotBefore)
        /\ last.response.body.value = last.slotBefore[1].value
        /\ AgeOf(last.slotBefore) >= 0
        /\ AgeOf(last.slotBefore) <= 5 * 60 * 1000
        /\ last.served = "fast" => last.slotBefore[1].fingerprint = last.fingerprint

\* A fallback that serves a slot of another fingerprint.
C7_Witness ==
    /\ Answered
    /\ last.served = "fallback"
    /\ last.slotBefore[1].fingerprint # last.fingerprint
    /\ last.response.body.value = last.slotBefore[1].value

\* C8: a request without refresh that finds the user's slot of its own
\* fingerprint and at most CACHE_TTL_MS old is answered at once with the
\* slot's value, without invoking generateJournalPatterns or the provider,
\* and leaves the slot alone; a request with refresh=1 is never answered by
\* the fast path.
C8_FastPath ==
    /\ (Answered /\ ~last.refresh /\ last.arrival = "hit") =>
            /\ last.served = "fast"
            /\ last.pc = "skipped"
            /\ last.providerCalls = 0
            /\ last.listCalls = 0
            /\ last.response.status = 200
            /\ last.response.body.value = last.slotBefore[1].value
            /\ patternsCacheByUser[last.user] = last.slotBefore
    /\ (Answered /\ last.refresh) => (last.served # "fast" /\ last.pc = "returned")

\* A fast-path answer from a slot that is exactly CACHE_TTL_MS old.
C8_Witness ==
    /\ Answered
    /\ ~last.refresh
    /\ last.served = "fast"
    /\ AgeOf(last.slotBefore) = 5 * 60 * 1000
    /\ last.response.body.value.shouldSpeak

\* C9: no 200 body, fresh or from the cache, and no slot has a reflection
\* or a theme with a banned substring in any case; and a request whose
\* model reply holds one is answered with the neutral reflection (the time
\* range followed by the fixed sentence) and no themes.
C9_NoBannedLanguage ==
    /\ AnsweredValue => ValueIsClean(last.response.body.value)
    /\ \A u \in Users :
          IsNull(patternsCacheByUser[u]) \/ ValueIsClean(patternsCacheByUser[u][1].value)
    /\ ( /\ Answered
         /\ ~IsNull(last.outcome)
         /\ ProviderOutcomes[last.outcome[1]].kind = "streams"
         /\ HasBannedSubstring(ProviderOutcomes[last.outcome[1]].streamedText) ) =>
            /\ last.served = "fresh"
            /\ last.response.body.value.shouldSpeak
            /\ last.response.body.value.themes = <<>>
            /\ \E tr \in TimeRanges :
                  /\ last.response.body.value.reflection = Some(tr \o SUFFIX_BANNED_LANGUAGE)
                  /\ last.response.body.value.timeRange = Some(tr)

\* A response from the cache whose slot was written for a model reply with
\* a banned theme.
C9_Witness ==
    /\ Answered
    /\ last.served \in {"fast", "fallback"}
    /\ ~IsNull(last.writerBefore)
    /\ last.writerBefore[1].outcome = Some(7)
    /\ \E tr \in TimeRanges :
          last.response.body.value.reflection = Some(tr \o SUFFIX_BANNED_LANGUAGE)

\* C10: every ok result of generateJournalPatterns has invitation null,
\* whatever the path and whatever invitation the model's reply holds.
C10_InvitationIsNull ==
    (Returned /\ call.result[1].ok) => call.result[1].value.invitation = Null

\* A return that carries the reflection of a reply whose invitation is a
\* string.
C10_Witness ==
    /\ Returned
    /\ ~IsNull(call.outcome)
    /\ ProviderOutcomes[call.outcome[1]].kind = "streams"
    /\ includes(ProviderOutcomes[call.outcome[1]].streamedText,
                <<"\"">> \o KEY_invitation \o <<"\"", ":", "\"">>)
    /\ call.result[1].ok
    /\ call.result[1].value.shouldSpeak
    /\ ~IsNull(call.result[1].value.reflection)
    /\ call.result[1].value.invitation = Null

---------------------------------------------------------------------------
(* What the provider's outcomes are, read off their texts: whether the     *)
(* call throws and with what status, whether the reply holds a JSON        *)
(* object, whether that object is of the expected shape, whether its       *)
(* reflection or themes hold banned language, whether it asks to speak,    *)
(* and its reflection, themes and timeRange once trimmed.                  *)

OutcomeFacts ==
    <<
      [ fails |-> TRUE, status |-> Some(429), parses |-> FALSE, shape |-> FALSE,
        banned |-> FALSE, speaks |-> FALSE,
        reflection |-> Null,
        themes |-> <<>>,
        timeRange |-> Null ],
      [ fails |-> TRUE, status |-> Some(500), parses |-> FALSE, shape |-> FALSE,
        banned |-> FALSE, speaks |-> FALSE,
        reflection |-> Null,
        themes |-> <<>>,
        timeRange |-> Null ],
      [ fails |-> TRUE, status |-> Null, parses |-> FALSE, shape |-> FALSE,
        banned |-> FALSE, speaks |-> FALSE,
        reflection |-> Null,
        themes |-> <<>>,
        timeRange |-> Null ],
      [ fails |-> FALSE, status |-> Null, parses |-> TRUE, shape |-> TRUE,
        banned |-> FALSE, speaks |-> TRUE,
        reflection |-> Some(<<"E", "v", "e", "n", "i", "n", "g", "s", " ", "k", "e", "e",
                                "p", " ", "f", "e", "e", "l", "i", "n", "g", " ", "h", "e",
                                "a", "v", "y", ".">>),
        themes |-> <<<<"t", "i", "r", "e", "d">>, <<"e", "v", "e", "n", "i", "n", "g", "s">>>>,
        timeRange |-> Some(<<"o", "v", "e", "r", " ", "t", "h", "e", " ", "p", "a", "s",
                                "t", " ", "t", "w", "o", " ", "w", "e", "e", "k", "s">>) ],
      [ fails |-> FALSE, status |-> Null, parses |-> TRUE, shape |-> TRUE,
        banned |-> FALSE, speaks |-> TRUE,
        reflection |-> Some(<<"E", "v", "e", "n", "i", "n", "g", "s", " ", "k", "e", "e",
                                "p", " ", "f", "e", "e", "l", "i", "n", "g", " ", "h", "e",
                                "a", "v", "y", ".">>),
        themes |-> <<<<"t", "i", "r", "e", "d">>, <<"e", "v", "e", "n", "i", "n", "g", "s">>>>,
        timeRange |-> Some(<<"o", "v", "e", "r", " ", "t", "h", "e", " ", "p", "a", "s",
                                "t", " ", "t", "w", "o", " ", "w", "e", "e", "k", "s">>) ],
      [ fails |-> FALSE, status |-> Null, parses |-> TRUE, shape |-> TRUE,
        banned |-> TRUE, speaks |-> TRUE,
        reflection |-> Some(<<"Y", "o", "u", " ", "S", "h", "o", "u", "l", "d", " ", "r",
                                "e", "s", "t", " ", "m", "o", "r", "e", ".">>),
        themes |-> <<<<"r", "e", "s", "t">>>>,
        timeRange |-> Null ],
      [ fails |-> FALSE, status |-> Null, parses |-> TRUE, shape |-> TRUE,
        banned |-> TRUE, speaks |-> TRUE,
        reflection |-> Some(<<"N", "i", "g", "h", "t", "s", " ", "f", "e", "e", "l", " ",
                                "l", "o", "n", "g", ".">>),
        themes |-> <<<<"s", "l", "e", "e", "p">>, <<"A", "n", "x", "i", "e", "t", "y">>>>,
        timeRange |-> Null ],
      [ fails |-> FALSE, status |-> Null, parses |-> TRUE, shape |-> TRUE,
        banned |-> FALSE, speaks |-> FALSE,
        reflection |-> Null,
        themes |-> <<>>,
        timeRange |-> Null ],
      [ fails |-> FALSE, status |-> Null, parses |-> TRUE, shape |-> TRUE,
        banned |-> TRUE, speaks |-> FALSE,
        reflection |-> Some(<<"A", "t", " ", "l", "e", "a", "s", "t", " ", "i", "t", " ",
                                "p", "a", "s", "s", "e", "d", ".">>),
        themes |-> <<>>,
        timeRange |-> Null ],
      [ fails |-> FALSE, status |-> Null, parses |-> TRUE, shape |-> TRUE,
        banned |-> FALSE, speaks |-> TRUE,
        reflection |-> Some(<<>>),
        themes |-> <<>>,
        timeRange |-> Null ],
      [ fails |-> FALSE, status |-> Null, parses |-> FALSE, shape |-> FALSE,
        banned |-> FALSE, speaks |-> FALSE,
        reflection |-> Null,
        themes |-> <<>>,
        timeRange |-> Null ],
      [ fails |-> FALSE, status |-> Null, parses |-> TRUE, shape |-> FALSE,
        banned |-> FALSE, speaks |-> FALSE,
        reflection |-> Null,
        themes |-> <<>>,
        timeRange |-> Null ],
      [ fails |-> FALSE, status |-> Null, parses |-> TRUE, shape |-> TRUE,
        banned |-> FALSE, speaks |-> TRUE,
        reflection |-> Some(<<"M", "o", "r", "n", "i", "n", "g", "s", " ", "s", "t", "a",
                                "r", "t", " ", "s", "l", "o", "w", ".">>),
        themes |-> <<>>,
        timeRange |-> Null ],
      [ fails |-> FALSE, status |-> Null, parses |-> TRUE, shape |-> TRUE,
        banned |-> FALSE, speaks |-> TRUE,
        reflection |-> Some(<<"D", "a", "y", "s", " ", "b", "l", "u", "r", " ", "t", "o",
                                "g", "e", "t", "h", "e", "r", ".">>),
        themes |-> <<>>,
        timeRange |-> Null ],
      [ fails |-> FALSE, status |-> Null, parses |-> TRUE, shape |-> TRUE,
        banned |-> FALSE, speaks |-> TRUE,
        reflection |-> Some(<<"T", "i", "r", "e", "d", " ", "m", "o", "s", "t", " ", "e",
                                "v", "e", "n", "i", "n", "g", "s", ".">>),
        themes |-> <<<<"t", "i", "r", "e", "d">>, <<"t", "i", "r", "e", "d">>, <<"s", "l", "e", "e", "p">>, <<"e", "v", "e", "n", "i", "n", "g", "s">>>>,
        timeRange |-> Some(<<"o", "v", "e", "r", " ", "t", "h", "e", " ", "p", "a", "s",
                                "t", " ", "w", "e", "e", "k">>) ]
    >>

\* The replies that ask to speak, cleanly, without a timeRange.
RepliesWithoutTimeRange ==
    {k \in 1..Len(OutcomeFacts) :
        /\ ~OutcomeFacts[k].fails /\ OutcomeFacts[k].shape /\ ~OutcomeFacts[k].banned
        /\ OutcomeFacts[k].speaks /\ OutcomeFacts[k].reflection \notin {Null, Some(<<>>)}
        /\ OutcomeFacts[k].timeRange = Null}

\* The outcomes whose reply is passed through: a reply of the expected
\* shape that asks to speak, with a reflection that is not blank and no
\* banned language.
SpokeOutcomes ==
    {k \in 1..Len(OutcomeFacts) :
        /\ ~OutcomeFacts[k].fails /\ OutcomeFacts[k].shape /\ ~OutcomeFacts[k].banned
        /\ OutcomeFacts[k].speaks /\ OutcomeFacts[k].reflection \notin {Null, Some(<<>>)}}

\* generateJournalPatterns has returned the value made of a passed-through
\* reply.
ReturnedSpoke ==
    /\ Returned
    /\ ~IsNull(call.outcome)
    /\ call.outcome[1] \in SpokeOutcomes
    /\ call.result[1].ok

\* The entries pass the gate: at least 4 non-vent entries that span at least
\* 6 days.
EntriesEligible(entries) == NonVentCount(entries) >= 4 /\ NonVentSpan(entries) >= 6

\* v is a templated value: it asks to speak, with no themes, a timeRange
\* that is one of the three phrases and a reflection that is that phrase
\* followed by the fixed sentence suffix.
IsTemplatedValue(v, suffix) ==
    /\ v.shouldSpeak
    /\ v.themes = <<>>
    /\ v.invitation = Null
    /\ \E tr \in TimeRanges : v.timeRange = Some(tr) /\ v.reflection = Some(tr \o suffix)

\* C11 as stated: in every ok result of generateJournalPatterns, reflection
\* and timeRange are both null exactly when shouldSpeak is false, so that a
\* value with shouldSpeak true has a non-null reflection and a non-null
\* timeRange.
C11_Original ==
    (Returned /\ call.result[1].ok) =>
        /\ ~call.result[1].value.shouldSpeak =>
              /\ call.result[1].value.reflection = Null
              /\ call.result[1].value.timeRange = Null
        /\ call.result[1].value.shouldSpeak =>
              /\ call.result[1].value.reflection # Null
              /\ call.result[1].value.timeRange # Null

\* C11, amended: in every ok result of generateJournalPatterns, a value with
\* shouldSpeak false has reflection and timeRange both null, and a value with
\* shouldSpeak true has a reflection that is a non-blank string; its
\* timeRange is a non-empty string or null, and it is null only in a value
\* that carries the model's own reflection for a reply whose timeRange was
\* null or blank.
C11_NullFieldsFollowShouldSpeak ==
    (Returned /\ call.result[1].ok) =>
        /\ ~call.result[1].value.shouldSpeak =>
              /\ call.result[1].value.reflection = Null
              /\ call.result[1].value.timeRange = Null
        /\ call.result[1].value.shouldSpeak =>
              /\ ~IsNull(call.result[1].value.reflection)
              /\ trim(call.result[1].value.reflection[1]) # <<>>
              /\ call.result[1].value.timeRange # Some(<<>>)
              /\ call.result[1].value.timeRange = Null =>
                    /\ ~IsNull(call.outcome)
                    /\ call.outcome[1] \in RepliesWithoutTimeRange
                    /\ call.debug => call.result[1].value.debug[1].reason = "spoke"

\* A return with shouldSpeak true, a reflection and a null timeRange.
C11_Witness ==
    /\ Returned
    /\ call.result[1].ok
    /\ call.result[1].value.shouldSpeak
    /\ ~IsNull(call.result[1].value.reflection)
    /\ call.result[1].value.timeRange = Null

\* C12: every ok result of generateJournalPatterns has at most 3 themes,
\* however many themes the model's reply holds.
C12_AtMostThreeThemes ==
    (Returned /\ call.result[1].ok) => Len(call.result[1].value.themes) <= 3

\* C13: generateJournalPatterns returns ok:false only when the entries are
\* eligible and no provider key is configured (with the message that says so
\* and without a provider call); once the provider has been called, whatever
\* it did, the result is ok:true: the silent value after a failed call of
\* any status, an unparseable reply, a reply of the wrong shape and a blank
\* reflection, a templated value after banned language; and without debug
\* the value has no debug member, so that a failed call's value is the bare
\* silent value, with nothing of the provider's status or message in it.
C13_FailuresDegrade ==
    Returned =>
        /\ ~call.result[1].ok =>
              /\ EntriesEligible(call.entriesAll)
              /\ ~env.GEMINI_API_KEY
              /\ IsNull(call.outcome)
              /\ call.providerCalls = 0
              /\ call.result[1] = [ok |-> FALSE,
                                   error |-> [message |-> "Gemini is not configured."]]
        /\ ~IsNull(call.outcome) =>
              /\ call.result[1].ok
              /\ DOMAIN call.result[1] = {"ok", "value"}
              /\ DOMAIN call.result[1].value =
                    {"shouldSpeak", "reflection", "themes", "invitation", "timeRange", "debug"}
              /\ ~call.debug => IsNull(call.result[1].value.debug)
              /\ (\/ OutcomeFacts[call.outcome[1]].fails
                  \/ ~OutcomeFacts[call.outcome[1]].parses
                  \/ ~OutcomeFacts[call.outcome[1]].shape) =>
                    IsSilentValue(call.result[1].value)
              /\ (/\ ~OutcomeFacts[call.outcome[1]].fails
                  /\ OutcomeFacts[call.outcome[1]].shape
                  /\ OutcomeFacts[call.outcome[1]].banned) =>
                    IsTemplatedValue(call.result[1].value, SUFFIX_BANNED_LANGUAGE)
              /\ (/\ ~OutcomeFacts[call.outcome[1]].fails
                  /\ OutcomeFacts[call.outcome[1]].shape
                  /\ ~OutcomeFacts[call.outcome[1]].banned
                  /\ OutcomeFacts[call.outcome[1]].speaks
                  /\ OutcomeFacts[call.outcome[1]].reflection = Some(<<>>)) =>
                    IsSilentValue(call.result[1].value)

\* A return, without debug, after a provider call that failed with status
\* 500 and a message: the bare silent value.
C13_Witness ==
    /\ Returned
    /\ ~call.debug
    /\ ~IsNull(call.outcome)
    /\ OutcomeFacts[call.outcome[1]].fails
    /\ OutcomeFacts[call.outcome[1]].status = Some(500)
    /\ ProviderOutcomes[call.outcome[1]].message # Null
    /\ call.result[1].ok
    /\ IsSilentValue(call.result[1].value)
    /\ IsNull(call.result[1].value.debug)

\* C14 as stated: a call of generateJournalPatterns with eligible entries
\* and a configured key has made exactly one call to the provider when it
\* returns, the fetch of the provider's model list counted, and no call of
\* generateJournalPatterns ever makes a second one.
C14_Original ==
    /\ call.pc # "none" => call.listCalls + call.providerCalls <= 1
    /\ (Returned /\ EntriesEligible(call.entriesAll) /\ env.GEMINI_API_KEY) =>
          call.listCalls + call.providerCalls = 1

\* C14, amended: a call of generateJournalPatterns never asks the provider
\* to generate more than once and never fetches the model list more than
\* once.  With eligible entries and a configured key it has asked the
\* provider to generate exactly once when it returns, whatever the provider
\* did, and it has fetched the model list before that exactly when no
\* model is configured and none is cached; otherwise it has called neither.
\* Once the provider has settled, the call has returned.
C14_OneGenerationCall ==
    call.pc # "none" =>
        /\ call.providerCalls <= 1
        /\ call.listCalls <= 1
        /\ ~IsNull(call.outcome) => Returned /\ call.providerCalls = 1
        /\ (Returned /\ EntriesEligible(call.entriesAll) /\ env.GEMINI_API_KEY) =>
              /\ call.providerCalls = 1
              /\ ~IsNull(call.outcome)
              /\ call.listCalls = (IF IsNull(env.GEMINI_MODEL) THEN 1 ELSE 0)
        /\ (Returned /\ ~(EntriesEligible(call.entriesAll) /\ env.GEMINI_API_KEY)) =>
              /\ call.providerCalls = 0
              /\ call.listCalls = 0

\* A return after a provider call that threw, for eligible entries, a key
\* and no configured model: one fetch of the model list, one provider call.
C14_Witness ==
    /\ Returned
    /\ EntriesEligible(call.entriesAll)
    /\ env.GEMINI_API_KEY
    /\ IsNull(env.GEMINI_MODEL)
    /\ ~IsNull(call.outcome)
    /\ OutcomeFacts[call.outcome[1]].fails
    /\ call.listCalls = 1
    /\ call.providerCalls = 1

\* The objects, in text order, of the part of the reply that is to be
\* scanned: those between the fences when the fence is closed, all of them
\* otherwise.
RegionObjects(c) ==
    IF FenceForms[c.fence].closed THEN c.inner
    ELSE ParserPrefixes[c.prefix].objects \o c.inner \o c.trailing

\* The positions in ids of the objects of the expected shape, and of those
\* that are JSON at least after the repairs.
ShapedIn(ids) == {i \in DOMAIN ids : ParserObjects[ids[i]].shape}

ParsedIn(ids) == {i \in DOMAIN ids : ParserObjects[ids[i]].value # Null}

LastOf(S) == CHOOSE i \in S : \A j \in S : j <= i

\* C15: for a reply text made of prose, a fence pair around some objects
\* and objects after it, parseBestJsonFromModelText scans the content of the
\* first fence pair, language tag removed: it returns the last object of
\* the expected shape between the fences when there is one, otherwise an
\* object between the fences that parses, and nothing when none does,
\* never an object of the prose or of the text after the fence.  When the
\* text has no fence, or an opening fence that is never closed, the whole
\* trimmed text is scanned in the same way.
C15_FencedObjectWins ==
    call.pc = "scanned" =>
        /\ FenceForms[call.fence].closed =>
              call.stripped = trim(join(objectTexts(call.inner), <<"\n">>))
        /\ ~FenceForms[call.fence].closed => call.stripped = trim(call.text)
        /\ ShapedIn(RegionObjects(call)) # {} =>
              call.result =
                ParserObjects[RegionObjects(call)[LastOf(ShapedIn(RegionObjects(call)))]].value
        /\ (ShapedIn(RegionObjects(call)) = {} /\ ParsedIn(RegionObjects(call)) # {}) =>
              \E i \in ParsedIn(RegionObjects(call)) :
                  call.result = ParserObjects[RegionObjects(call)[i]].value
        /\ ParsedIn(RegionObjects(call)) = {} => call.result = Null

\* A scanned reply with prose, a closed fence around two objects of the
\* expected shape and another object of the expected shape after the fence:
\* the result is the second object between the fences.
C15_Witness ==
    /\ call.pc = "scanned"
    /\ call.prefix = 2
    /\ FenceForms[call.fence].closed
    /\ call.inner = <<1, 2>>
    /\ call.trailing = <<2>>
    /\ call.result = ParserObjects[2].value
    /\ call.result # ParserObjects[1].value

\* The near-JSON text of C16 and the text its repairs make of it.
NEAR_JSON ==
    <<"{", "l", "a", "b", "e", "l", ":", " ", "'", "x", "'", ",", " ", "s", "c", "o", "r", "e",
      ":", " ", "1", ",", "}">>

NEAR_JSON_REPAIRED ==
    <<"{", "\"", "l", "a", "b", "e", "l", "\"", ":", " ", "\"", "x", "\"", ",", " ", "\"", "s",
      "c", "o", "r", "e", "\"", ":", " ", "1", "}">>

\* C16: for the candidate {label: 'x', score: 1,} JSON.parse fails, the
\* repairs turn the text into {"label": "x", "score": 1}, and
\* tryParseJsonLoose returns the object with exactly the two members label,
\* the string x, and score, the number 1.
C16_NearJsonIsRepaired ==
    (call.pc = "tried" /\ call.candidate = NEAR_JSON) =>
        /\ call.strict = Null
        /\ repairJson(call.candidate) = NEAR_JSON_REPAIRED
        /\ call.loose # Null
        /\ call.loose[1].t = "obj"
        /\ Len(call.loose[1].members) = 2
        /\ {call.loose[1].members[i] : i \in 1..2} =
              { [k |-> <<"l", "a", "b", "e", "l">>, v |-> JStr(<<"x">>)],
                [k |-> <<"s", "c", "o", "r", "e">>, v |-> JNum(<<"1">>)] }

\* tryParseJsonLoose has returned an object for {label: 'x', score: 1,}.
C16_Witness ==
    /\ call.pc = "tried"
    /\ call.candidate = NEAR_JSON
    /\ call.strict = Null
    /\ call.loose # Null

ExpectedReason(f) ==
    IF f.fails THEN (IF f.status = Some(429) THEN "rate_limited" ELSE "model_error")
    ELSE IF ~f.parses THEN "invalid_json"
    ELSE IF ~f.shape THEN "invalid_shape"
    ELSE IF f.banned THEN "banned_language"
    ELSE IF ~f.speaks THEN "model_silence"
    ELSE IF f.reflection \in {Null, Some(<<>>)} THEN "empty_reflection"
    ELSE "spoke"

SilentReasons ==
    {"rate_limited", "model_error", "invalid_json", "invalid_shape", "empty_reflection"}

NOT_SEEING_A_PATTERN ==
    <<"n", "o", "t", " ", "s", "e", "e", "i", "n", "g", " ", "a", " ", "c", "l", "e", "a", "r",
      " ", "r", "e", "p", "e", "a", "t", "i", "n", "g", " ", "p", "a", "t", "t", "e", "r", "n",
      " ", "y", "e", "t">>

\* The timeRange C19 gives a non-vent span of so many days.
ExpectedTimeRange(span) ==
    IF span >= 20 THEN TIME_RANGE_FEW_WEEKS
    ELSE IF span >= 13 THEN TIME_RANGE_TWO_WEEKS
    ELSE TIME_RANGE_WEEK

\* C19: whenever generateJournalPatterns returns after a reply of the
\* expected shape with shouldSpeak false and no banned language, the value
\* is not silent: shouldSpeak is true, the themes are empty, the invitation
\* null, the timeRange is that of the non-vent span (20 days or more: the
\* past few weeks; 13 to 19: the past two weeks; otherwise the past week)
\* and the reflection is that timeRange followed by the sentence that says
\* no clear repeating pattern is seen yet; with debug on the reason is
\* model_silence.
C19_ModelSilenceIsTemplated ==
    (/\ Returned
     /\ ~IsNull(call.outcome)
     /\ ~OutcomeFacts[call.outcome[1]].fails
     /\ OutcomeFacts[call.outcome[1]].shape
     /\ ~OutcomeFacts[call.outcome[1]].banned
     /\ ~OutcomeFacts[call.outcome[1]].speaks) =>
        /\ call.result[1].ok
        /\ call.result[1].value.shouldSpeak
        /\ call.result[1].value.themes = <<>>
        /\ call.result[1].value.invitation = Null
        /\ call.result[1].value.timeRange =
              Some(ExpectedTimeRange(NonVentSpan(call.entriesAll)))
        /\ call.result[1].value.reflection =
              Some(ExpectedTimeRange(NonVentSpan(call.entriesAll)) \o SUFFIX_MODEL_SILENCE)
        /\ includes(call.result[1].value.reflection[1], NOT_SEEING_A_PATTERN)
        /\ call.debug => call.result[1].value.debug[1].reason = "model_silence"

\* A return after the model's silence for entries whose non-vent span is 20
\* days: the sentence over the past few weeks.
C19_Witness ==
    /\ Returned
    /\ ~IsNull(call.outcome)
    /\ OutcomeFacts[call.outcome[1]].shape
    /\ ~OutcomeFacts[call.outcome[1]].banned
    /\ ~OutcomeFacts[call.outcome[1]].speaks
    /\ NonVentSpan(call.entriesAll) = 20
    /\ call.result[1].value.shouldSpeak
    /\ call.result[1].value.timeRange = Some(TIME_RANGE_FEW_WEEKS)

\* C20: whenever generateJournalPatterns returns the value made of a
\* passed-through reply, no returned theme is blank, none has white space
\* at either end, and none occurs twice.
C20_ThemesTrimmedDistinct ==
    ReturnedSpoke =>
        /\ \A i \in DOMAIN call.result[1].value.themes :
              /\ call.result[1].value.themes[i] # <<>>
              /\ trim(call.result[1].value.themes[i]) = call.result[1].value.themes[i]
        /\ \A i, j \in DOMAIN call.result[1].value.themes :
              call.result[1].value.themes[i] = call.result[1].value.themes[j] => i = j

\* The state is that of a decided reply whose text is one variant of the
\* object of the expected shape, alone and without fences.
DecidedVariant ==
    /\ call.pc = "decided"
    /\ call.prefix = 1
    /\ call.fence = 5
    /\ Len(call.inner) = 1
    /\ call.inner[1] \in ShapeVariantIds
    /\ call.trailing = <<>>

\* The value of a reply the schema refused: silent, with the debug reason
\* invalid_shape.
IsInvalidShape(c) ==
    /\ ~c.accepted
    /\ IsSilentValue(c.value[1])
    /\ c.value[1].debug[1].reason = "invalid_shape"

\* C21 as stated: a candidate that lacks one of the members shouldSpeak,
\* timeRange, reflection, themes and invitation, or has one of them with a
\* value of another type, is refused by the schema and yields the silent
\* value with the reason invalid_shape; only a candidate with all five is
\* accepted.
C21_Original ==
    DecidedVariant =>
        IF ShapeFacts[call.inner[1]].missing # Null \/ ShapeFacts[call.inner[1]].mistyped # Null
        THEN IsInvalidShape(call)
        ELSE call.accepted

\* C21, amended: a candidate that lacks one of shouldSpeak, timeRange,
\* reflection and invitation, or has one of the five members with a value
\* of another type (null for themes included), is refused by the schema and
\* yields the silent value with the reason invalid_shape.  A candidate with
\* the five members, and one that lacks only themes, is accepted: the
\* missing themes count as the empty list, and the reply is passed on with
\* the reason spoke.
C21_ShapeIsRequiredButThemes ==
    DecidedVariant =>
        IF \/ ShapeFacts[call.inner[1]].mistyped # Null
           \/ ShapeFacts[call.inner[1]].missing \notin {Null, Some(KEY_themes)}
        THEN IsInvalidShape(call)
        ELSE /\ call.accepted
             /\ call.value[1].shouldSpeak
             /\ call.value[1].reflection = Some(<<"S", "t", "i", "l", "l", " ", "t", "i", "r", "e", "d", ".">>)
             /\ call.value[1].themes =
                   (IF ShapeFacts[call.inner[1]].missing = Some(KEY_themes) THEN <<>>
                    ELSE <<<<"r", "e", "s", "t">>>>)
             /\ call.value[1].debug[1].reason = "spoke"

\* A decided reply without the member themes: accepted and passed on with
\* no themes.
C21_Witness ==
    /\ DecidedVariant
    /\ ShapeFacts[call.inner[1]].missing = Some(KEY_themes)
    /\ call.accepted
    /\ call.value[1].shouldSpeak
    /\ call.value[1].themes = <<>>
    /\ call.value[1].debug[1].reason = "spoke"

FirstOf(S) == CHOOSE i \in S : \A j \in S : i <= j

\* C22: parseBestJsonFromModelText returns the last object, in text order,
\* of the scanned part of the reply that parses (as it is or after the
\* repairs) and is of the expected shape; when no object is of the expected
\* shape but some parse, it returns one that parses (the first of them in
\* text order, the loop keeping the candidate it parsed last); and it
\* returns nothing exactly when no object parses.
C22_LastShapedElseParsed ==
    call.pc = "scanned" =>
        /\ (call.result = Null) <=> (ParsedIn(RegionObjects(call)) = {})
        /\ ShapedIn(RegionObjects(call)) # {} =>
              /\ call.result # Null
              /\ schemaAccepts(call.result[1])
              /\ call.result =
                   ParserObjects[RegionObjects(call)[LastOf(ShapedIn(RegionObjects(call)))]].value
        /\ (ShapedIn(RegionObjects(call)) = {} /\ ParsedIn(RegionObjects(call)) # {}) =>
              /\ ~schemaAccepts(call.result[1])
              /\ call.result =
                   ParserObjects[RegionObjects(call)[FirstOf(ParsedIn(RegionObjects(call)))]].value

\* A scanned reply whose scanned part holds an object of the expected shape
\* followed by one that parses but is not of that shape: the result is the
\* former.
C22_Witness ==
    /\ call.pc = "scanned"
    /\ FenceForms[call.fence].closed
    /\ call.inner = <<2, 3>>
    /\ call.candidates = <<ParserObjects[2].text, ParserObjects[3].text>>
    /\ call.result = ParserObjects[2].value

\* C23: extractJsonObjects returns, in text order, exactly the top-level
\* balanced {...} substrings of the text it scans: the objects of the
\* scanned part, and no candidate for an object nested in one of them or
\* for a brace inside a string.
C23_TopLevelObjectsOnly ==
    call.pc = "scanned" => call.candidates = objectTexts(RegionObjects(call))

\* The day of a selected entry, and the kind the journal gave that day.
DayOf(e) == CHOOSE i \in 1..Len(SelectDates) : SelectDates[i] = e.entryDate

KindOf(c, e) == c.kinds[DayOf(e)]

RECURSIVE SummedCost(_, _)
SummedCost(c, j) ==
    IF j = 0 THEN 0 ELSE KindCost(KindOf(c, c.selected[j])) + SummedCost(c, j - 1)

Selected == call.pc = "selected"

\* C24: selectEntriesForModel returns at most 30 entries, at most 6 of them
\* vent entries, each with its fields cut to 500 (body), 140 (prompts) and
\* 260 (answers) characters and a compact text of at most 900 characters
\* and the ellipsis, and the costs of the returned entries, 40 plus the
\* length of the compact text each, sum to at most 8000.
C24_SelectionIsBounded ==
    Selected =>
        /\ Len(call.selected) <= 30
        /\ Cardinality({j \in DOMAIN call.selected : call.selected[j].ventEntry}) <= 6
        /\ \A j \in DOMAIN call.selected :
              /\ Len(call.selected[j].body) <= 500
              /\ Len(call.selected[j].prompt1) <= 140
              /\ Len(call.selected[j].prompt2) <= 140
              /\ Len(call.selected[j].p1Answer) <= 260
              /\ Len(call.selected[j].p2Answer) <= 260
              /\ Len(compactEntryText(call.selected[j])) <= 901
              /\ 40 + Len(compactEntryText(call.selected[j])) =
                    KindCost(KindOf(call, call.selected[j]))
        /\ SummedCost(call, Len(call.selected)) <= 8000

\* A selection that the budget cut short: of a journal of nine long
\* non-vent entries or more, the eight that fit.
C24_Witness ==
    /\ Selected
    /\ Len(call.entries) >= 9
    /\ \A i \in DOMAIN call.kinds : call.kinds[i].long /\ ~call.kinds[i].vent
    /\ Len(call.selected) = 8
    /\ SummedCost(call, 8) = 7528

\* C25: the list selectEntriesForModel returns for entries in ascending
\* order of entryDate is in ascending order of entryDate: no returned entry
\* is of a later day than the entry that follows it.
C25_SelectionIsOldestFirst ==
    Selected =>
        \A j \in 1..(Len(call.selected) - 1) :
            DayOf(call.selected[j]) <= DayOf(call.selected[j + 1])

\* The days of the journal's entries that are vent entries or not, and the
\* days selected among them.
DaysOf(c, vent) == {i \in DOMAIN c.kinds : c.kinds[i].vent = vent}

SelectedDays(c, vent) ==
    {DayOf(c.selected[j]) : j \in {k \in DOMAIN c.selected : c.selected[k].ventEntry = vent}}

\* C26: the non-vent entries selectEntriesForModel returns are the newest
\* non-vent entries of the journal, with none left out between them, and
\* it returns a vent entry only when it returns every non-vent entry of
\* the journal; each returned entry is an entry of the journal, vent or not
\* as the journal has it.
C26_NewestNonVentFirst ==
    Selected =>
        /\ SelectedDays(call, FALSE) \subseteq DaysOf(call, FALSE)
        /\ SelectedDays(call, TRUE) \subseteq DaysOf(call, TRUE)
        /\ \A d \in SelectedDays(call, FALSE) :
              \A e \in DaysOf(call, FALSE) : e > d => e \in SelectedDays(call, FALSE)
        /\ SelectedDays(call, TRUE) # {} => SelectedDays(call, FALSE) = DaysOf(call, FALSE)

\* A selection of some, not all, of the non-vent entries of a journal that
\* has vent entries too: no vent entry is returned.
C26_Witness ==
    /\ Selected
    /\ DaysOf(call, TRUE) # {}
    /\ SelectedDays(call, FALSE) # {}
    /\ SelectedDays(call, FALSE) # DaysOf(call, FALSE)
    /\ SelectedDays(call, TRUE) = {}

\* Some user other than u has asked: has a request awaiting, or has had an
\* answer made for it by a run of generateJournalPatterns.
OtherUserAsked(u) ==
    \E v \in (DOMAIN db) \ {u} :
        \/ ~IsNull(slotWriter[v])
        \/ \E i \in Slots : inflight[i] # Idle /\ inflight[i].req.user = v

\* C27 as stated, for the model a response is generated with: the only
\* request of a user, in a process with no configured model, resolves the
\* model by its own fetch of the model list, whatever the requests of
\* another user have done.
C27_Original ==
    ( /\ Answered
      /\ requests = 2
      /\ OtherUserAsked(last.user)
      /\ IsNull(env.GEMINI_MODEL)
      /\ last.providerCalls = 1 ) =>
        last.listCalls = 1

\* C27, amended: a step changes the slot of a user only by answering a
\* request of that user with the value of its own run, so the slot of
\* every other user stays as it was; and the response to a request is made
\* of the slot of its own user: a response from the cache is the value of
\* that slot, left alone, and a response with a fresh value leaves that
\* value, with the fingerprint of the user's own journal, in that slot.
\* (The model a run generates with may be the one a request of another
\* user resolved and left in cachedModelName.)
C27_SlotsAreIndependent ==
    /\ [][ \A u \in DOMAIN patternsCacheByUser :
              patternsCacheByUser'[u] # patternsCacheByUser[u] =>
                  /\ last'.served = "fresh"
                  /\ last'.user = u ]_vars
    /\ []( /\ (Answered /\ last.served \in {"fast", "fallback"}) =>
                  /\ patternsCacheByUser[last.user] = last.slotBefore
                  /\ last.response.body.value = patternsCacheByUser[last.user][1].value
           /\ (Answered /\ last.served = "fresh") =>
                  /\ patternsCacheByUser[last.user] =
                        Some([ atMs        |-> now,
                               fingerprint |-> computeEntriesFingerprint(
                                                   slice(Snapshots[db[last.user]], 0, MAX)),
                               value       |-> last.response.body.value ])
                  /\ last.fingerprint = patternsCacheByUser[last.user][1].fingerprint )

\* A request is answered with a fresh value while a request of another user
\* awaits the provider, and a second one while the slot of another user
\* holds another value, written for that user.
C27_Witness ==
    /\ Answered
    /\ last.served = "fresh"
    /\ last.providerCalls = 1
    /\ \E v \in (DOMAIN db) \ {last.user} :
          /\ ~IsNull(patternsCacheByUser[v])
          /\ patternsCacheByUser[v][1].value # last.response.body.value
          /\ patternsCacheByUser[v][1].fingerprint # last.fingerprint
          /\ slotWriter[v][1].body.value = patternsCacheByUser[v][1].value

\* The fingerprint the route computes of the journal of snapshot i.
FingerprintOf(i) == computeEntriesFingerprint(slice(Snapshots[i], 0, MAX))

\* Value v was generated from the journal of snapshot i: it is silent when
\* that journal does not pass the gate, and when its reflection is the
\* neutral sentence after a time range (lines 704-712), the time range is
\* that of the non-vent span of that journal.  (The time range of a
\* reflection of the model is the model's: line 796.)
GeneratedFrom(v, i) ==
    /\ ~SnapshotEligible(i) => IsSilentValue(v)
    /\ \A tr \in TimeRanges :
          v.reflection = Some(tr \o SUFFIX_BANNED_LANGUAGE) =>
              /\ tr = ExpectedTimeRange(NonVentSpan(entriesOf(Snapshots[i])))
              /\ v.timeRange = Some(tr)

\* C28: under every interleaving of the requests of one user, the slot holds
\* what the request that answered last with a fresh value put there, and
\* every stored entry pairs the value of a run with the fingerprint of the
\* snapshot that run was given; so the fast path only serves a value that
\* was generated from a snapshot of the fingerprint of the journal as it is.
C28_LastWriterWins ==
    /\ \A u \in Users :
          ~IsNull(patternsCacheByUser[u]) =>
              /\ ~IsNull(slotWriter[u])
              /\ patternsCacheByUser[u][1].value = slotWriter[u][1].body.value
              /\ patternsCacheByUser[u][1].fingerprint = FingerprintOf(slotWriter[u][1].snapshot)
              /\ GeneratedFrom(patternsCacheByUser[u][1].value, slotWriter[u][1].snapshot)
    /\ (Answered /\ last.served = "fresh") =>
          patternsCacheByUser[last.user] =
              Some([ atMs        |-> now,
                     fingerprint |-> FingerprintOf(last.snapshot),
                     value       |-> last.response.body.value ])
    /\ (Answered /\ last.served = "fast") =>
          /\ last.snapshot = db[last.user]
          /\ FingerprintOf(last.writerBefore[1].snapshot) = FingerprintOf(db[last.user])
          /\ last.response.body.value = last.slotBefore[1].value
          /\ GeneratedFrom(last.response.body.value, last.writerBefore[1].snapshot)

\* Two requests of one user overlap across the provider call and an edit of
\* the journal: the one that read the older journal answers last, and the
\* slot holds its value with the fingerprint of the older journal.
C28_Witness ==
    /\ Answered
    /\ last.served = "fresh"
    /\ last.providerCalls = 1
    /\ ~IsNull(last.writerBefore)
    /\ last.writerBefore[1].providerCalls = 1
    /\ last.writerBefore[1].snapshot = db[last.user]
    /\ last.snapshot < db[last.user]
    /\ FingerprintOf(last.snapshot) # FingerprintOf(db[last.user])
    /\ patternsCacheByUser[last.user][1].fingerprint = FingerprintOf(last.snapshot)
    /\ last.outcome \in {Some(6), Some(7)}
    /\ last.writerBefore[1].outcome \in {Some(6), Some(7)}
    /\ last.response.body.value.timeRange # last.writerBefore[1].body.value.timeRange

\* C29: only an answer with a fresh value changes a slot, and it stamps it
\* with the time of the answer; an answer from the cache, on the fast path
\* or on the fallback after a silent run, leaves the slot of the user as it
\* was, value and timestamp, and the slot it serves was written at most
\* CACHE_TTL_MS (5 minutes) before.
C29_HitsLeaveTheSlot ==
    /\ [][ patternsCacheByUser' # patternsCacheByUser =>
              /\ last'.served = "fresh"
              /\ patternsCacheByUser'[last'.user][1].atMs = now' ]_vars
    /\ []( (Answered /\ last.served \in {"fast", "fallback"}) =>
              /\ ~IsNull(last.slotBefore)
              /\ patternsCacheByUser[last.user] = last.slotBefore
              /\ slotWriter[last.user] = last.writerBefore
              /\ last.response.body.value = last.slotBefore[1].value
              /\ now - patternsCacheByUser[last.user][1].atMs >= 0
              /\ now - patternsCacheByUser[last.user][1].atMs <= 5 * 60 * 1000 )

\* After a silent run, a request is answered from a slot written exactly
\* CACHE_TTL_MS before, and the slot keeps its timestamp.
C29_Witness ==
    /\ Answered
    /\ last.served = "fallback"
    /\ last.providerCalls = 1
    /\ now = 5 * 60 * 1000
    /\ patternsCacheByUser[last.user] = last.slotBefore
    /\ patternsCacheByUser[last.user][1].atMs = 0
    /\ last.response.body.value = patternsCacheByUser[last.user][1].value

\* The steps of Settled(i) are those of ProviderSettled(i, k): a step that
\* frees slot i answers the request that awaited the provider in it.
SettledIsProviderSettled ==
    [][ \A i \in Slots :
           (inflight[i] # Idle /\ inflight'[i] = Idle) <=>
               /\ Settled(i)
               /\ \E k \in SettlingOutcomes : ProviderSettled(i, k) ]_vars

\* The step answers the request that was in flight in slot i.
AnswersSlot(i) ==
    /\ inflight[i] # Idle
    /\ inflight'[i] = Idle
    /\ last'.served \in {"fallback", "fresh", "error"}
    /\ last'.user = inflight[i].req.user
    /\ last'.fingerprint = inflight[i].req.fingerprint
    /\ last'.refresh = inflight[i].req.refresh
    /\ last'.debug = inflight[i].req.debug

\* C30: a GET is either answered by the step that starts it or is in flight
\* in one slot after it, never both; a request in flight stays in flight,
\* the same request, until the step that answers it, which answers that
\* request alone; no other step sends a response; and, the awaited calls
\* settling, every request in flight is answered in the end.
C30_EveryRequestIsAnswered ==
    /\ [][ requests' = requests + 1 =>
              \/ /\ last'.served # "none"
                 /\ inflight' = inflight
              \/ /\ last'.served = "none"
                 /\ \E i \in Slots :
                       /\ inflight[i] = Idle
                       /\ inflight'[i] # Idle
                       /\ \A j \in Slots \ {i} : inflight'[j] = inflight[j] ]_vars
    /\ [][ \A i \in Slots :
              inflight[i] # Idle =>
                  \/ /\ inflight'[i] # Idle
                     /\ inflight'[i].req = inflight[i].req
                  \/ /\ AnswersSlot(i)
                     /\ requests' = requests
                     /\ \A j \in Slots \ {i} : inflight'[j] = inflight[j] ]_vars
    /\ [][ (requests' = requests /\ last'.served # "none") =>
              \E i \in Slots : AnswersSlot(i) ]_vars
    /\ \A i \in Slots : (inflight[i] # Idle) ~> (inflight[i] = Idle /\ Answered)

\* A request that awaited the model list and then the provider has been
\* answered, after another that awaited the provider, and nothing is in
\* flight.
C30_Witness ==
    /\ Answered
    /\ requests = 2
    /\ last.listCalls = 1
    /\ last.providerCalls = 1
    /\ ~IsNull(last.writerBefore)
    /\ last.writerBefore[1].providerCalls = 1
    /\ AgeOf(last.slotBefore) = 0
    /\ \A i \in Slots : inflight[i] = Idle

=============================================================================
